---- MODULE Spec2Model ----
(***************************************************************************)
(* Model of plugins/ralph-parallel/scripts/parse-and-partition.py: the     *)
(* planner that parses tasks.md, infers task dependencies, partitions the  *)
(* incomplete tasks into groups and ends with one of its exit codes; and   *)
(* of plugins/ralph-parallel/scripts/mark-tasks-complete.py, which checks  *)
(* the boxes of the tasks of completed groups in tasks.md.                 *)
(*                                                                         *)
(* Conventions.  A Python str is a sequence of character codes, so that    *)
(* the str comparisons of the source are lexicographic here too.  A Python *)
(* list is a sequence; list positions are 1-based here and 0-based in the  *)
(* source (group number g of the model is index g - 1 of the plan).  A     *)
(* task object is referred to by its position in the list parse_tasks      *)
(* returns: the groups, the Serial list and the verify list hold such      *)
(* positions, as the source holds references to the same dict objects.     *)
(***************************************************************************)
EXTENDS Integers, Sequences, FiniteSets, TLC

\* ---------------------------------------------------------------- bounds
MaxTasks == 4
MaxFiles == 2
MaxTeammates == 2
MaxWideTasks == 6
MaxMarkLines == 3
MaxLongTasks == 34
MaxRuns == 2
\* The longest list of tasks classify_verify_commands is called on.
MaxVerifyTasks == 2
\* The tasks of the documents the rebalancer is followed on.
MaxSkewTasks == 7

Files == 1..MaxFiles

\* ---------------------------------------------------------------- strings
Dot == 46
DigitChar(d) == 48 + d

RECURSIVE Digits(_)
\* str(n) for n >= 0: the decimal digits of n, most significant first.
Digits(n) == IF n < 10 THEN <<DigitChar(n)>>
             ELSE Append(Digits(n \div 10), DigitChar(n % 10))

\* The text "phase.sequence" of a task line.
IdText(phase, sequence) == Digits(phase) \o <<Dot>> \o Digits(sequence)

Min2(a, b) == IF a < b THEN a ELSE b

\* Python's a < b on str: lexicographic by code point, a proper prefix first.
StrLess(a, b) ==
    \/ \E i \in 1..Min2(Len(a), Len(b)) :
          /\ a[i] < b[i]
          /\ \A j \in 1..(i - 1) : a[j] = b[j]
    \/ /\ Len(a) < Len(b)
       /\ \A j \in 1..Len(a) : a[j] = b[j]

RECURSIVE ParseInt(_)
\* int(s) of a string of decimal digits.
ParseInt(s) == IF Len(s) = 0 THEN 0
               ELSE 10 * ParseInt(SubSeq(s, 1, Len(s) - 1)) + (s[Len(s)] - 48)

\* Position of the first '.' of s (the ids the task regex admits hold one).
DotPos(s) == CHOOSE i \in 1..Len(s) : s[i] = Dot /\ \A j \in 1..(i - 1) : s[j] # Dot

\* int(task_id.split('.')[0])
PhaseOf(id) == ParseInt(SubSeq(id, 1, DotPos(id) - 1))

\* The numeric value of an id, component by component (used by the properties).
NumKey(id) == <<PhaseOf(id), ParseInt(SubSeq(id, DotPos(id) + 1, Len(id)))>>
NumLess(a, b) ==
    \/ NumKey(a)[1] < NumKey(b)[1]
    \/ NumKey(a)[1] = NumKey(b)[1] /\ NumKey(a)[2] < NumKey(b)[2]

Range(s) == {s[i] : i \in 1..Len(s)}

\* ---------------------------------------------------------------- state
VARIABLES
    input,            \* the run's inputs: tasks.md (or its absence) and the options
    pc,               \* position of main()
    tasks,            \* the list parse_tasks returned, dependencies included
    parallel_tasks,   \* partition_tasks: incomplete tasks without the VERIFY marker
    verify_tasks,     \* partition_tasks: incomplete tasks with the VERIFY marker
    next_task,        \* _build_groups_automatic: position of its for loop
    groups,           \* the groups under construction
    file_ownership,   \* _build_groups_automatic: file -> group
    serial_tasks,     \* the Serial list
    rounds,           \* _rebalance_groups: iterations of its for loop so far
    result,           \* what partition_tasks returned
    exit_code,        \* the exit status of the process, -1 while it runs
    stdout,           \* the plan printed, NoPlan if none was
    stderr,           \* the messages printed to stderr, in order
    mark,             \* mark-tasks-complete.py: its files, its locals, its reports
    quality           \* classify_verify_commands and discover_quality_commands:
                      \* their inputs, their locals, what they return

plan_vars == <<input, pc, tasks, parallel_tasks, verify_tasks, next_task, groups,
               file_ownership, serial_tasks, rounds, result, exit_code, stdout, stderr>>
vars == <<plan_vars, mark, quality>>

\* Python's None where a str may stand; where a dict may stand (the value
\* partition_tasks returns, the plan on stdout); where a list may stand.
None == "None"
NoResult == [none |-> TRUE]
NoPlan == [none |-> TRUE]
NoGroups == <<>>
\* A line on stderr: what it says and the file it names (0: none).
Message(text, file) == [text |-> text, file |-> file]

\* ---------------------------------------------------------------- inputs
\* A task line of tasks.md: "- [box] id markers description" and its body.
\* grp is the "### Group" header the line sits under (0: under none).
TaskLine(box, id, markers, files, grp) ==
    [box |-> box, id |-> id, markers |-> markers, files |-> files, grp |-> grp]

\* Ids 1.1, 1.2, 1.3, ... : one phase, ascending.
PlainId(i) == IdText(1, i)
\* Ids 1.9, 1.10, 2.9, 2.10, 3.9, ... : two tasks a phase, ascending numerically.
LateId(i) == IdText(1 + ((i - 1) \div 2), 9 + ((i - 1) % 2))

\* The document of n task lines with the ids IdAt and the shapes sh.
IdAt(ids, i) == IF ids = "late" THEN LateId(i) ELSE PlainId(i)
Doc(n, ids, sh) ==
    [i \in 1..n |-> TaskLine(sh[i].box, IdAt(ids, i), sh[i].markers, sh[i].files, sh[i].grp)]

Shape(box, markers, files, grp) ==
    [box |-> box, markers |-> markers, files |-> files, grp |-> grp]

\* The file lists tried for a task: none, one file, or the first two files.
FileSets == {{}} \cup {{f} : f \in Files} \cup {{1, 2}}

Run(exists, doc, declared, strategy, k) ==
    [exists |-> exists, doc |-> doc, declared |-> declared,
     strategy |-> strategy, max_teammates |-> k]

Header(name, files) == [name |-> name, files |-> files]

\* Unfinished plain tasks with any of the file lists, no declared groups: the
\* inputs of the automatic and the worktree partitioners.
AutoShapes == { Shape(" ", {"P"}, fs, 0) : fs \in FileSets }

\* Several phases with ids past 1.9, VERIFY tasks and one file.
GraphShapes == { Shape(" ", m, fs, 0) : m \in {{"P"}, {"VERIFY"}}, fs \in {{}, {1}} }

\* Finished and unfinished tasks, with and without the VERIFY marker.
MainShapes == { Shape(b, m, {}, 0) : b \in {" ", "x"}, m \in {{}, {"VERIFY"}} }

\* Two "### Group" headers: tasks under either or neither, a VERIFY task and a
\* finished task under the first, and "Files owned" lines that may overlap.
PredefinedShapes ==
    { Shape(" ", {"P"}, {1}, 1), Shape(" ", {"P"}, {1}, 2), Shape(" ", {"P"}, {}, 2),
      Shape(" ", {"P"}, {}, 0), Shape(" ", {"VERIFY"}, {}, 1), Shape("x", {"P"}, {}, 1) }
\* A header's task lines follow it, up to the next header or boundary.
HeadersInOrder(doc) ==
    \A i, j \in 1..Len(doc) :
        i < j /\ doc[i].grp # 0 /\ doc[j].grp # 0 =>
            /\ doc[i].grp <= doc[j].grp
            /\ doc[i].grp = doc[j].grp => \A m \in i..j : doc[m].grp = doc[i].grp

\* Longer documents of unfinished one-file tasks over one more file, for the
\* automatic partitioner with one more group than MaxTeammates.
WideFiles == 1..(MaxFiles + 1)
WideShapes == { Shape(" ", {"P"}, {f}, 0) : f \in WideFiles }

\* ---------------------------------------------------------------- parse_tasks
Task(line) ==
    [id |-> line.id,
     phase |-> PhaseOf(line.id),
     files |-> line.files,
     markers |-> line.markers,
     completed |-> (line.box = "x"),
     dependencies |-> <<>>]

parse_tasks(doc) == [i \in 1..Len(doc) |-> Task(doc[i])]

\* ---------------------------------------------------------------- build_dependency_graph
\* dependencies.append(id) unless id is already listed.
AppendNew(deps, id) == IF id \in Range(deps) THEN deps ELSE Append(deps, id)

WithDeps(t, deps) == [t EXCEPT !.dependencies = deps]

\* other['id'] < t['id'] as the source writes it: a comparison of two str.
IdBefore(a, b) == StrLess(a, b)

\* Mutant: the phases of the two tasks are not compared.
OverlapDeps_AnyPhase(ts, j) ==
    LET F[i \in 0..(j - 1)] ==
            IF i = 0 THEN ts[j].dependencies
            ELSE IF (ts[i].files \cap ts[j].files) # {}
                 THEN Append(F[i - 1], ts[i].id)
                 ELSE F[i - 1]
    IN  F[j - 1]
\* Rule 1: a task depends on every earlier task of its phase that shares a file.
OverlapDeps(ts, j) ==
    LET F[i \in 0..(j - 1)] ==
            IF i = 0 THEN ts[j].dependencies
            ELSE IF ts[i].phase = ts[j].phase /\ (ts[i].files \cap ts[j].files) # {}
                 THEN Append(F[i - 1], ts[i].id)
                 ELSE F[i - 1]
    IN  F[j - 1]

FileOverlapRule(ts) == [j \in 1..Len(ts) |-> WithDeps(ts[j], OverlapDeps(ts, j))]

\* Rule 2, for the VERIFY task at position k: it depends on the tasks of its
\* phase whose id is before its own, and those whose id is after depend on it.
BarrierDeps(ts, k) ==
    LET F[o \in 0..Len(ts)] ==
            IF o = 0 THEN ts[k].dependencies
            ELSE IF ts[o].phase = ts[k].phase /\ IdBefore(ts[o].id, ts[k].id)
                 THEN AppendNew(F[o - 1], ts[o].id)
                 ELSE F[o - 1]
    IN  F[Len(ts)]

VerifyBarrier(ts, k) ==
    LET own == [ts EXCEPT ![k] = WithDeps(ts[k], BarrierDeps(ts, k))]
    IN  [o \in 1..Len(ts) |->
            IF own[o].phase = own[k].phase /\ IdBefore(own[k].id, own[o].id)
            THEN WithDeps(own[o], AppendNew(own[o].dependencies, own[k].id))
            ELSE own[o]]

VerifyRule(ts) ==
    LET F[k \in 0..Len(ts)] ==
            IF k = 0 THEN ts
            ELSE IF "VERIFY" \in ts[k].markers THEN VerifyBarrier(F[k - 1], k)
                 ELSE F[k - 1]
    IN  F[Len(ts)]

\* Rule 3: the tasks of a phase depend on the VERIFY task (the last one in the
\* list) of the phase before it in sorted(set(phases)).
PhasesOf(ts) == {ts[i].phase : i \in 1..Len(ts)}
PhaseBefore(ts, p) ==
    IF \E q \in PhasesOf(ts) : q < p
    THEN CHOOSE q \in PhasesOf(ts) : q < p /\ \A r \in PhasesOf(ts) : r < p => r <= q
    ELSE 0
\* Mutant: the first VERIFY task of the phase is taken.
VerifyOfPhase_First(ts, p) ==
    LET vs == {i \in 1..Len(ts) : ts[i].phase = p /\ "VERIFY" \in ts[i].markers}
    IN  IF vs = {} THEN 0 ELSE CHOOSE i \in vs : \A j \in vs : i <= j
VerifyOfPhase(ts, p) ==
    LET vs == {i \in 1..Len(ts) : ts[i].phase = p /\ "VERIFY" \in ts[i].markers}
    IN  IF vs = {} THEN 0 ELSE CHOOSE i \in vs : \A j \in vs : j <= i

PhaseOrderRule(ts) ==
    [j \in 1..Len(ts) |->
        LET v == VerifyOfPhase(ts, PhaseBefore(ts, ts[j].phase))
        IN  IF v = 0 THEN ts[j]
            ELSE WithDeps(ts[j], AppendNew(ts[j].dependencies, ts[v].id))]

build_dependency_graph(ts) == PhaseOrderRule(VerifyRule(FileOverlapRule(ts)))

\* ---------------------------------------------------------------- partitioning helpers
\* range(n) as a list: the positions 1..n.
Indices(n) == [i \in 1..n |-> i]

Group(ts, owned, name) ==
    [tasks |-> ts, ownedFiles |-> owned, dependencies |-> {}, predefinedName |-> name]

\* key=lambda t: (t['phase'], t['id']): a tuple of an int and a str.
SortKeyLess(ts, a, b) ==
    \/ ts[a].phase < ts[b].phase
    \/ ts[a].phase = ts[b].phase /\ StrLess(ts[a].id, ts[b].id)

\* list.sort(key=...): stable, ascending.
SortByPhaseAndId(ts, list) ==
    LET Insert(sorted, x) ==
            LET k == Cardinality({i \in 1..Len(sorted) : ~SortKeyLess(ts, x, sorted[i])})
            IN  SubSeq(sorted, 1, k) \o <<x>> \o SubSeq(sorted, k + 1, Len(sorted))
        F[i \in 0..Len(list)] ==
            IF i = 0 THEN <<>> ELSE Insert(F[i - 1], list[i])
    IN  F[Len(list)]

\* min(range(len(groups)), key=lambda i: len(groups[i]['tasks'])): the first
\* group with the fewest tasks.
LeastLoaded(gs) ==
    CHOOSE g \in 1..Len(gs) :
        /\ \A h \in 1..Len(gs) : Len(gs[g].tasks) <= Len(gs[h].tasks)
        /\ \A h \in 1..(g - 1) : Len(gs[h].tasks) > Len(gs[g].tasks)

\* counts.index(max(counts))
LargestGroup(gs) ==
    CHOOSE g \in 1..Len(gs) :
        /\ \A h \in 1..Len(gs) : Len(gs[g].tasks) >= Len(gs[h].tasks)
        /\ \A h \in 1..(g - 1) : Len(gs[h].tasks) < Len(gs[g].tasks)

\* ---------------------------------------------------------------- parse_predefined_groups
\* The "### Group" headers of the document, each with its "Files owned" and
\* the ids of the task lines under it; None unless two of them have both.
DeclaredGroups(in) ==
    [g \in 1..Len(in.declared) |->
        [name |-> in.declared[g].name,
         files |-> in.declared[g].files,
         taskIds |-> LET at == SelectSeq(Indices(Len(in.doc)), LAMBDA i : in.doc[i].grp = g)
                     IN  [k \in 1..Len(at) |-> in.doc[at[k]].id]]]

\* Mutant: one group with ids and files is enough.
parse_predefined_groups_OneValid(in) ==
    LET found == DeclaredGroups(in)
        valid == SelectSeq(found, LAMBDA g : g.taskIds # <<>> /\ g.files # {})
    IN  IF Len(valid) >= 1 THEN valid ELSE NoGroups
parse_predefined_groups(in) ==
    LET found == DeclaredGroups(in)
        valid == SelectSeq(found, LAMBDA g : g.taskIds # <<>> /\ g.files # {})
    IN  IF Len(valid) >= 2 THEN valid ELSE NoGroups

\* ---------------------------------------------------------------- _build_groups_from_predefined
\* task_map = {t['id']: t for t in all_tasks}: the last task with the id.
TaskById(ts, id) ==
    LET at == {i \in 1..Len(ts) : ts[i].id = id}
    IN  IF at = {} THEN 0 ELSE CHOOSE i \in at : \A j \in at : j <= i

\* The members of a declared group that exist and are not complete.
PredefinedMembers(ts, pg) ==
    LET at == [k \in 1..Len(pg.taskIds) |-> TaskById(ts, pg.taskIds[k])]
    IN  SelectSeq(at, LAMBDA i : i # 0 /\ ~ts[i].completed)

\* The groups used: predefined[:max_teammates].
UsedDeclared(predefined, k) == SubSeq(predefined, 1, Min2(k, Len(predefined)))

PredefinedOwned(used, g) == used[g].files

PredefinedGroups(ts, used) ==
    LET all == [g \in 1..Len(used) |->
                   Group(PredefinedMembers(ts, used[g]), PredefinedOwned(used, g), used[g].name)]
    IN  SelectSeq(all, LAMBDA g : g.tasks # <<>>)

\* Mutant: no dependency is stripped.
PredefinedStrip_Nothing(ts, used) == ts
\* Dependencies that point outside a member's declared group are stripped.
PredefinedStrip(ts, used) ==
    [i \in 1..Len(ts) |->
        LET mine == {g \in 1..Len(used) :
                        i \in Range(PredefinedMembers(ts, used[g]))}
        IN  WithDeps(ts[i], SelectSeq(ts[i].dependencies,
                LAMBDA d : \A g \in mine : d \in Range(used[g].taskIds)))]

\* Mutant: every task without the VERIFY marker is put on the Serial list.
PredefinedSerial_All(ts, par, gs) == par
\* serial = [t for t in parallel_tasks if t['id'] not in grouped_ids]
PredefinedSerial(ts, par, gs) ==
    LET grouped == UNION {{ts[i].id : i \in Range(gs[g].tasks)} : g \in 1..Len(gs)}
    IN  SelectSeq(par, LAMBDA i : ts[i].id \notin grouped)

\* ---------------------------------------------------------------- _build_groups_worktree
\* Mutant: every task goes to one group.
WorktreeGroups_OneGroup(ts, sorted, k) ==
    <<Group(sorted, UNION {ts[i].files : i \in Range(sorted)}, None)>>
WorktreeGroups(ts, sorted, k) ==
    LET n == Min2(k, Len(sorted))
        all == [g \in 1..n |->
                   LET at == SelectSeq(Indices(Len(sorted)), LAMBDA i : ((i - 1) % n) + 1 = g)
                       members == [j \in 1..Len(at) |-> sorted[at[j]]]
                   IN  Group(members, UNION {ts[i].files : i \in Range(members)}, None)]
    IN  SelectSeq(all, LAMBDA g : g.tasks # <<>>)

\* Mutant: the division is made before the loop, tasks or no tasks.
WorktreeRaises_NoGuard(sorted, k) == Min2(k, Len(sorted)) <= 0
\* target = i % len(groups) raises ZeroDivisionError: the loop has a task to
\* place and range(min(max_teammates, len(parallel_tasks))) was empty.
WorktreeRaises(sorted, k) == sorted # <<>> /\ Min2(k, Len(sorted)) <= 0

\* ---------------------------------------------------------------- _build_groups_automatic
\* The groups that own a file of the task already.
Owning(fo, task_files) == {fo[f] : f \in task_files \cap DOMAIN fo}

\* for f in task_files: file_ownership[f] = target
Claim(fo, task_files, target) ==
    [f \in DOMAIN fo \cup task_files |-> IF f \in task_files THEN target ELSE fo[f]]

AddTask(gs, target, i, task_files) ==
    [gs EXCEPT ![target].tasks = Append(@, i),
               ![target].ownedFiles = @ \cup task_files]

\* Mutant: the task is forced into the first group instead.
Deferred_Forced(st, i) == [st EXCEPT !.groups[1].tasks = Append(@, i)]
\* What a task whose files are owned by two or more groups becomes.
Deferred(st, i) == [st EXCEPT !.serial = Append(@, i)]

\* Mutant: a group is opened for every task whose files nobody owns.
HasRoom_Always(gs, k) == TRUE
\* len(groups) < max_teammates: a new group may be opened.
HasRoom(gs, k) == Len(gs) < k

\* One iteration of the for loop: st holds groups, file_ownership and the
\* Serial list, i is the task, k is max_teammates.
PlaceOne(ts, st, i, k) ==
    LET task_files == ts[i].files
        owning == Owning(st.fo, task_files)
    IN  IF task_files = {}
        THEN LET gs == IF st.groups = <<>> THEN <<Group(<<>>, {}, None)>> ELSE st.groups
             IN  [st EXCEPT !.groups = AddTask(gs, LeastLoaded(gs), i, {})]
        ELSE IF Cardinality(owning) = 0
        THEN LET fresh == HasRoom(st.groups, k)
                 gs == IF fresh THEN Append(st.groups, Group(<<>>, {}, None)) ELSE st.groups
                 target == IF fresh THEN Len(gs) ELSE LeastLoaded(gs)
             IN  [st EXCEPT !.groups = AddTask(gs, target, i, task_files),
                            !.fo = Claim(st.fo, task_files, target)]
        ELSE IF Cardinality(owning) = 1
        THEN LET target == CHOOSE g \in owning : TRUE
             IN  [st EXCEPT !.groups = AddTask(st.groups, target, i, task_files),
                            !.fo = Claim(st.fo, task_files, target)]
        ELSE Deferred(st, i)

\* ---------------------------------------------------------------- _rebalance_groups
RebalanceRounds == 10

Max2(a, b) == IF a > b THEN a ELSE b

\* not (max(counts) <= 2 * max(min(counts), 1))
Unbalanced(gs) ==
    Len(gs[LargestGroup(gs)].tasks) > 2 * Max2(Len(gs[LeastLoaded(gs)].tasks), 1)

\* The positions in the largest group's list of the tasks that may move: those
\* whose files do not meet the smallest group's ownedFiles.
Movable(ts, gs) ==
    {x \in 1..Len(gs[LargestGroup(gs)].tasks) :
        ts[gs[LargestGroup(gs)].tasks[x]].files \cap gs[LeastLoaded(gs)].ownedFiles = {}}

\* Mutant: the scan runs from the start of the list.
MovedIndex_First(ts, gs) == CHOOSE x \in Movable(ts, gs) : \A y \in Movable(ts, gs) : y >= x
\* The scan runs from the end of the list: the last movable task moves.
MovedIndex(ts, gs) == CHOOSE x \in Movable(ts, gs) : \A y \in Movable(ts, gs) : y <= x

\* Mutant: the task that moves stays in the list it leaves.
RemoveAt_Keeps(s, x) == s
\* list.pop(x)
RemoveAt(s, x) == SubSeq(s, 1, x - 1) \o SubSeq(s, x + 1, Len(s))

\* The largest group's ownedFiles once the task with task_files has left it.
OwnedAfterMove(ts, gs, task_files) == gs[LargestGroup(gs)].ownedFiles \ task_files

MoveOne(ts, st) ==
    LET gs == st.groups
        largest == LargestGroup(gs)
        smallest == LeastLoaded(gs)
        x == MovedIndex(ts, gs)
        i == gs[largest].tasks[x]
        task_files == ts[i].files
        left == [gs EXCEPT ![largest].tasks = RemoveAt(@, x),
                           ![largest].ownedFiles = OwnedAfterMove(ts, gs, task_files)]
    IN  [st EXCEPT !.groups = AddTask(left, smallest, i, task_files),
                   !.fo = Claim(st.fo, task_files, smallest)]

\* Mutant: the loop has no ceiling.
CanMove_NoCeiling(ts, gs, done) ==
    /\ Len(gs) >= 2
    /\ Unbalanced(gs)
    /\ Movable(ts, gs) # {}
\* The loop of _rebalance_groups goes on to another move.
CanMove(ts, gs, done) ==
    /\ Len(gs) >= 2
    /\ done < RebalanceRounds
    /\ Unbalanced(gs)
    /\ Movable(ts, gs) # {}

\* ---------------------------------------------------------------- _add_group_dependencies
IdsOf(ts, g) == {ts[i].id : i \in Range(g.tasks)}

\* Mutant: "if j == i: continue" is left out.
GroupDependencies_WithSelf(ts, gs, g) ==
    {h \in 1..Len(gs) :
        \E i \in Range(gs[g].tasks) : Range(ts[i].dependencies) \cap IdsOf(ts, gs[h]) # {}}
\* The groups other than g that hold a task some task of g depends on.
GroupDependencies(ts, gs, g) ==
    {h \in 1..Len(gs) :
        /\ h # g
        /\ \E i \in Range(gs[g].tasks) : Range(ts[i].dependencies) \cap IdsOf(ts, gs[h]) # {}}

add_group_dependencies(ts, gs) ==
    [g \in 1..Len(gs) |->
        [gs[g] EXCEPT !.dependencies = @ \cup GroupDependencies(ts, gs, g)]]

\* ---------------------------------------------------------------- _format_result
IdList(ts, list) == [k \in 1..Len(list) |-> ts[list[k]].id]

FormatGroup(ts, gs, g) ==
    [index |-> g,
     tasks |-> IdList(ts, gs[g].tasks),
     ownedFiles |-> gs[g].ownedFiles,
     dependencies |-> gs[g].dependencies,
     phases |-> {ts[i].phase : i \in Range(gs[g].tasks)}]

\* round(n / d, 1), in tenths: the nearest tenth, and of two equally near ones
\* the even one (n / d is then a multiple of 1/4 in every plan of fewer than
\* 20 tasks a group, which a float holds exactly).
RoundTenths(n, d) ==
    LET q == (10 * n) \div d
        r == (10 * n) % d
    IN  IF 2 * r < d THEN q
        ELSE IF 2 * r > d THEN q + 1
        ELSE IF q % 2 = 0 THEN q ELSE q + 1

\* sum(len(g['tasks']) for g in result_groups)
TotalParallel(rgs) ==
    LET F[k \in 0..Len(rgs)] == IF k = 0 THEN 0 ELSE F[k - 1] + Len(rgs[k].tasks)
    IN  F[Len(rgs)]
\* max((len(g['tasks']) for g in result_groups), default=1)
MaxGroup(rgs) ==
    IF rgs = <<>> THEN 1
    ELSE CHOOSE n \in {Len(rgs[k].tasks) : k \in 1..Len(rgs)} :
            \A k \in 1..Len(rgs) : Len(rgs[k].tasks) <= n

\* Mutant: the estimate is the number of groups.
EstimatedSpeedup_GroupCount(rgs) == 10 * Len(rgs)
\* The speedup estimate, in tenths.
EstimatedSpeedup(rgs) ==
    IF MaxGroup(rgs) > 0
    THEN RoundTenths(TotalParallel(rgs), Max2(MaxGroup(rgs), 1))
    ELSE 10

format_result(ts, gs, serial, verify, incomplete) ==
    LET kept == SelectSeq(Indices(Len(gs)), LAMBDA g : gs[g].tasks # <<>>)
        result_groups == [k \in 1..Len(kept) |-> FormatGroup(ts, gs, kept[k])]
    IN  [totalTasks |-> Len(ts),
         incompleteTasks |-> Len(incomplete),
         groups |-> result_groups,
         serialTasks |-> IdList(ts, serial),
         verifyTasks |-> IdList(ts, verify),
         phaseCount |-> Cardinality({ts[i].phase : i \in Range(incomplete)}),
         estimatedSpeedup |-> EstimatedSpeedup(result_groups)]

\* ---------------------------------------------------------------- partition_tasks
Incomplete(ts) == SelectSeq(Indices(Len(ts)), LAMBDA i : ~ts[i].completed)
\* Mutant: the VERIFY marker is not looked at.
ParallelOf_KeepsVerify(ts) == Incomplete(ts)
ParallelOf(ts) ==
    SelectSeq(Incomplete(ts), LAMBDA i : "VERIFY" \notin ts[i].markers)
VerifyOf(ts) ==
    SelectSeq(Incomplete(ts), LAMBDA i : "VERIFY" \in ts[i].markers)

\* The strategy partition_tasks takes.
Chosen(in) ==
    IF parse_predefined_groups(in) # NoGroups THEN "predefined"
    ELSE IF in.strategy = "worktree" THEN "worktree"
    ELSE "file-ownership"

\* ---------------------------------------------------------------- main
\* Mutant: the check for zero groups comes before the one for a single task.
ExitCode_GroupsFirst(res) ==
    IF res = NoResult THEN 2
    ELSE IF Len(res.groups) = 0 THEN 4
    ELSE IF res.incompleteTasks = 1 THEN 3
    ELSE 0
\* Mutant: the check for a single task is missing.
ExitCode_NoSingleCheck(res) ==
    IF res = NoResult THEN 2
    ELSE IF Len(res.groups) = 0 THEN 4
    ELSE 0
\* The exit status main() ends with once partition_tasks has returned res.
ExitCode(res) ==
    IF res = NoResult THEN 2
    ELSE IF res.incompleteTasks = 1 THEN 3
    ELSE IF Len(res.groups) = 0 THEN 4
    ELSE 0

\* What main() prints to stderr before that exit.
ExitMessage(code) ==
    IF code = 2 THEN <<Message("All tasks complete", 0)>>
    ELSE IF code = 3 THEN <<Message("Only 1 task remaining", 0)>>
    ELSE IF code = 4 THEN <<Message("Error: Could not create any parallel groups", 0)>>
    ELSE <<>>

\* ---------------------------------------------------------------- the run
\* mark-tasks-complete.py is not running.
NotMarking == [pc |-> "off"]
\* The quality commands and the verify tiers, which main() hands to the plan as
\* they are, are not followed in this run.
NoQuality == [pc |-> "off"]

Start(in) ==
    /\ input = in
    /\ pc = "read"
    /\ tasks = <<>>
    /\ parallel_tasks = <<>>
    /\ verify_tasks = <<>>
    /\ next_task = 1
    /\ groups = <<>>
    /\ file_ownership = [f \in {} |-> 0]
    /\ serial_tasks = <<>>
    /\ rounds = 0
    /\ result = NoResult
    /\ exit_code = -1
    /\ stdout = NoPlan
    /\ stderr = <<>>
    /\ mark = NotMarking
    /\ quality = NoQuality

\* The automatic and the worktree strategy with every max_teammates.
InitAuto ==
    \E n \in 1..MaxTasks : \E sh \in [1..n -> AutoShapes] :
    \E st \in {"file-ownership", "worktree"} : \E k \in 1..MaxTeammates :
        Start(Run(TRUE, Doc(n, "plain", sh), <<>>, st, k))

InitGraph ==
    \E n \in 1..MaxTasks : \E sh \in [1..n -> GraphShapes] :
    \E st \in {"file-ownership", "worktree"} :
        Start(Run(TRUE, Doc(n, "late", sh), <<>>, st, 2))

\* The missing tasks.md, the one without a task line, and the others.
InitMain ==
    \E st \in {"file-ownership", "worktree"} :
        \/ Start(Run(FALSE, <<>>, <<>>, st, 2))
        \/ \E n \in 0..MaxTasks : \E sh \in [1..n -> MainShapes] :
               Start(Run(TRUE, Doc(n, "plain", sh), <<>>, st, 2))

InitPredefined ==
    \E n \in 2..(MaxTasks - 1) : \E sh \in [1..n -> PredefinedShapes] :
    \E f2 \in {{}, {1}, {2}} : \E k \in 1..2 :
        /\ HeadersInOrder(Doc(n, "plain", sh))
        /\ Start(Run(TRUE, Doc(n, "plain", sh),
                     <<Header("group-1", {1}), Header("group-2", f2)>>,
                     "file-ownership", k))

\* Two declared groups with a file each and as many unfinished tasks under the
\* one as under the other, each task with no file or with its group's file.
InitEven ==
    \E sh \in [1..(2 * (MaxTasks \div 2)) -> {0, 1}] : \E k \in 1..2 :
        Start(Run(TRUE,
                  Doc(2 * (MaxTasks \div 2), "plain",
                      [i \in 1..(2 * (MaxTasks \div 2)) |->
                          LET g == IF i <= MaxTasks \div 2 THEN 1 ELSE 2
                          IN  Shape(" ", {"P"}, IF sh[i] = 1 THEN {g} ELSE {}, g)]),
                  <<Header("group-1", {1}), Header("group-2", {2})>>,
                  "file-ownership", k))

Init == InitAuto \/ InitGraph \/ InitMain \/ InitPredefined \/ InitEven

\* main(): tasks.md is read and parsed; exit 1 when it is missing or no task
\* line is found.
ReadTasks ==
    /\ pc = "read"
    /\ IF ~input.exists
       THEN /\ exit_code' = 1
            /\ stderr' = Append(stderr, Message("Error: tasks.md not found", 0))
            /\ pc' = "done"
            /\ UNCHANGED tasks
       ELSE IF parse_tasks(input.doc) = <<>>
       THEN /\ exit_code' = 1
            /\ stderr' = Append(stderr, Message("Error: No parseable tasks found", 0))
            /\ pc' = "done"
            /\ UNCHANGED tasks
       ELSE /\ tasks' = parse_tasks(input.doc)
            /\ pc' = "graph"
            /\ UNCHANGED <<exit_code, stderr>>
    /\ UNCHANGED <<quality, mark, input, parallel_tasks, verify_tasks, next_task, groups,
                   file_ownership, serial_tasks, rounds, result, stdout>>

\* main(): tasks = build_dependency_graph(tasks)
BuildDependencyGraph ==
    /\ pc = "graph"
    /\ tasks' = build_dependency_graph(tasks)
    /\ pc' = "partition"
    /\ UNCHANGED <<quality, mark, input, parallel_tasks, verify_tasks, next_task, groups,
                   file_ownership, serial_tasks, rounds, result, exit_code,
                   stdout, stderr>>

\* partition_tasks up to the end of the strategy it takes; the automatic
\* strategy goes on in PlaceTask, one task at a time.  An exception nobody
\* catches ends the process with its traceback on stderr and exit status 1.
PartitionTasks ==
    /\ pc = "partition"
    /\ IF Incomplete(tasks) = <<>>
       THEN /\ pc' = "exit"
            /\ UNCHANGED <<tasks, parallel_tasks, verify_tasks, groups, serial_tasks,
                           exit_code, stderr>>
       ELSE /\ verify_tasks' = VerifyOf(tasks)
            /\ IF Chosen(input) = "predefined"
               THEN LET used == UsedDeclared(parse_predefined_groups(input),
                                             input.max_teammates)
                        gs == PredefinedGroups(tasks, used)
                    IN  /\ tasks' = PredefinedStrip(tasks, used)
                        /\ groups' = gs
                        /\ parallel_tasks' = ParallelOf(tasks)
                        /\ serial_tasks' = PredefinedSerial(tasks, ParallelOf(tasks), gs)
                        /\ pc' = "format"
                        /\ UNCHANGED <<exit_code, stderr>>
               ELSE IF Chosen(input) = "worktree"
               THEN LET sorted == SortByPhaseAndId(tasks, ParallelOf(tasks))
                    IN  /\ parallel_tasks' = sorted
                        /\ IF WorktreeRaises(sorted, input.max_teammates)
                           THEN /\ exit_code' = 1
                                /\ stderr' = Append(stderr, Message("ZeroDivisionError", 0))
                                /\ pc' = "done"
                                /\ UNCHANGED <<tasks, groups, serial_tasks>>
                           ELSE /\ groups' = WorktreeGroups(tasks, sorted, input.max_teammates)
                                /\ pc' = "format"
                                /\ UNCHANGED <<tasks, serial_tasks, exit_code, stderr>>
               ELSE /\ parallel_tasks' = SortByPhaseAndId(tasks, ParallelOf(tasks))
                    /\ pc' = IF ParallelOf(tasks) = <<>> THEN "rebalance" ELSE "place"
                    /\ UNCHANGED <<tasks, groups, serial_tasks, exit_code, stderr>>
    /\ UNCHANGED <<quality, mark, input, next_task, file_ownership, rounds, result, stdout>>

\* _build_groups_automatic: one iteration of "for task in parallel_tasks".
PlaceTask ==
    /\ pc = "place"
    /\ next_task <= Len(parallel_tasks)
    /\ LET st == PlaceOne(tasks,
                          [groups |-> groups, fo |-> file_ownership, serial |-> serial_tasks],
                          parallel_tasks[next_task], input.max_teammates)
       IN  /\ groups' = st.groups
           /\ file_ownership' = st.fo
           /\ serial_tasks' = st.serial
    /\ next_task' = next_task + 1
    /\ pc' = IF next_task = Len(parallel_tasks) THEN "rebalance" ELSE "place"
    /\ UNCHANGED <<quality, mark, input, tasks, parallel_tasks, verify_tasks, rounds, result,
                   exit_code, stdout, stderr>>

\* _rebalance_groups: one iteration of its loop that moves a task.
RebalanceMove ==
    /\ pc = "rebalance"
    /\ CanMove(tasks, groups, rounds)
    /\ LET st == MoveOne(tasks, [groups |-> groups, fo |-> file_ownership,
                                 serial |-> serial_tasks])
       IN  /\ groups' = st.groups
           /\ file_ownership' = st.fo
    /\ rounds' = rounds + 1
    /\ UNCHANGED <<quality, mark, input, pc, tasks, parallel_tasks, verify_tasks, next_task,
                   serial_tasks, result, exit_code, stdout, stderr>>

\* _rebalance_groups returns: fewer than two groups, the loop's break, or its end.
RebalanceStop ==
    /\ pc = "rebalance"
    /\ ~CanMove(tasks, groups, rounds)
    /\ pc' = "format"
    /\ UNCHANGED <<quality, mark, input, tasks, parallel_tasks, verify_tasks, next_task, groups,
                   file_ownership, serial_tasks, rounds, result, exit_code,
                   stdout, stderr>>

\* partition_tasks: _add_group_dependencies, then the plan of _format_result.
FormatResult ==
    /\ pc = "format"
    /\ groups' = add_group_dependencies(tasks, groups)
    /\ result' = format_result(tasks, groups', serial_tasks, verify_tasks,
                               Incomplete(tasks))
    /\ pc' = "exit"
    /\ UNCHANGED <<quality, mark, input, tasks, parallel_tasks, verify_tasks, next_task,
                   file_ownership, serial_tasks, rounds, exit_code, stdout, stderr>>

\* main(): the exit status, and the plan on stdout when it is 0.
MainExit ==
    /\ pc = "exit"
    /\ exit_code' = ExitCode(result)
    /\ stderr' = stderr \o ExitMessage(ExitCode(result))
    /\ stdout' = IF ExitCode(result) = 0 THEN result ELSE NoPlan
    /\ pc' = "done"
    /\ UNCHANGED <<quality, mark, input, tasks, parallel_tasks, verify_tasks, next_task, groups,
                   file_ownership, serial_tasks, rounds, result>>

Next ==
    \/ ReadTasks
    \/ BuildDependencyGraph
    \/ PartitionTasks
    \/ PlaceTask
    \/ RebalanceMove
    \/ RebalanceStop
    \/ FormatResult
    \/ MainExit

Spec == Init /\ [][Next]_vars

InitWide ==
    \E sh \in [1..MaxWideTasks -> WideShapes] :
        Start(Run(TRUE, Doc(MaxWideTasks, "plain", sh), <<>>, "file-ownership",
                  MaxTeammates + 1))
SpecWide == InitWide /\ [][Next]_vars

\* Three "### Group" headers, the first two with or without a "Files owned"
\* list, and tasks under any of them or under none; either strategy.  Every
\* task names the one file, or every task but the first does.
StrategyDoc(n, grp, bare) ==
    Doc(n, "plain", [i \in 1..n |->
                        Shape(" ", {"P"}, IF bare /\ i = 1 THEN {} ELSE {1}, grp[i])])
InitStrategy ==
    \E n \in 1..MaxTasks : \E grp \in [1..n -> 0..3] : \E bare \in BOOLEAN :
    \E f1 \in {{}, {1}} : \E f2 \in {{}, {2}} :
    \E st \in {"file-ownership", "worktree"} : \E k \in 1..2 :
        /\ HeadersInOrder(StrategyDoc(n, grp, bare))
        /\ Start(Run(TRUE, StrategyDoc(n, grp, bare),
                     <<Header("group-1", f1), Header("group-2", f2), Header("group-3", {2})>>,
                     st, k))
SpecStrategy == InitStrategy /\ [][Next]_vars

\* One phase of unfinished tasks with no file or one file, enough of them for
\* the rebalancer to move tasks between the same two groups more than once.
SkewShapes == { Shape(" ", {"P"}, fs, 0) : fs \in {{}, {1}, {2}} }
InitSkew ==
    \E sh \in [1..MaxSkewTasks -> SkewShapes] : \E k \in 2..3 :
        Start(Run(TRUE, Doc(MaxSkewTasks, "plain", sh), <<>>, "file-ownership", k))
SpecSkew == InitSkew /\ [][Next]_vars

\* The worktree strategy with a max_teammates below 1, which --max-teammates
\* (type=int) lets through, next to the runs above.
InitEdge ==
    \E n \in 1..MaxTasks : \E sh \in [1..n -> MainShapes] : \E k \in {-1, 0} :
        Start(Run(TRUE, Doc(n, "plain", sh), <<>>, "worktree", k))
InitAnyTeammates == InitAuto \/ InitMain \/ InitEdge
SpecAnyTeammates == InitAnyTeammates /\ [][Next]_vars

\* One long phase of tasks without files but for one: the tasks placed before
\* that one pile up in the first group, the second group opens with it.
InitLong ==
    \E j \in 1..MaxLongTasks :
        Start(Run(TRUE,
                  Doc(MaxLongTasks, "plain",
                      [i \in 1..MaxLongTasks |->
                          Shape(" ", {"P"}, IF i = j THEN {1} ELSE {}, 0)]),
                  <<>>, "file-ownership", 2))
\* _rebalance_groups is a sequential loop: once entered, its next iteration or
\* its return is taken.
SpecLong == InitLong /\ [][Next]_vars /\ WF_vars(RebalanceMove \/ RebalanceStop)

\* ================================================================ mark-tasks-complete.py
\* A task line of tasks.md as this tool sees it: the character in the box and
\* the id that follows it.
MarkLine(box, id) == [box |-> box, id |-> id]
\* Ids 1.1, 1.10, 1.3, ... : the second one begins with the first.
MarkId(i) == IF i = 2 THEN IdText(1, 10) ELSE IdText(1, i)
\* The boxes tried: open, checked as the tool writes it, checked in upper case.
Boxes == {" ", "x", "X"}

\* dispatch-state.json
DispatchState(readable, gs, completed) ==
    [readable |-> readable, groups |-> gs, completedGroups |-> completed]
DispatchGroup(name, ids) == [name |-> name, tasks |-> ids]

\* The printed JSON and the exit status.
Report(m, a, n, error, code) ==
    [marked |-> m, alreadyComplete |-> a, notFound |-> n, error |-> error, exit |-> code]

\* group_tasks[name]: the tasks of every group of that name, in order.
GroupTasksOf(gs, name) ==
    LET F[g \in 0..Len(gs)] ==
            IF g = 0 THEN <<>>
            ELSE IF gs[g].name = name THEN F[g - 1] \o gs[g].tasks ELSE F[g - 1]
    IN  F[Len(gs)]

\* task_ids: the tasks of the completed groups, each id once, in order.
TaskIds(state) ==
    LET all == LET F[c \in 0..Len(state.completedGroups)] ==
                       IF c = 0 THEN <<>>
                       ELSE F[c - 1] \o GroupTasksOf(state.groups, state.completedGroups[c])
               IN  F[Len(state.completedGroups)]
        D[k \in 0..Len(all)] == IF k = 0 THEN <<>> ELSE AppendNew(D[k - 1], all[k])
    IN  D[Len(all)]

\* The text of a line from its id on: the id, then a space and the description.
TextFromId(line) == Append(line.id, 32)
\* \w, for the characters that occur here.
WordChar(c) == c \in 48..57
\* rf'{escaped_id}\b' at the start of text.
IdMatches(task_id, text) ==
    /\ Len(task_id) <= Len(text)
    /\ \A k \in 1..Len(task_id) : text[k] = task_id[k]
    /\ Len(text) = Len(task_id) \/ ~WordChar(text[Len(task_id) + 1])
\* rf'^- \[x\] {escaped_id}\b'
AlreadyPattern(line, task_id) == line.box = "x" /\ IdMatches(task_id, TextFromId(line))
\* rf'^(- )\[ \]( {escaped_id}\b)'
IncompletePattern(line, task_id) == line.box = " " /\ IdMatches(task_id, TextFromId(line))

\* One iteration of "for task_id in task_ids".
MarkOne(m, task_id) ==
    IF \E k \in 1..Len(m.content) : AlreadyPattern(m.content[k], task_id)
    THEN [m EXCEPT !.already_complete = @ + 1]
    ELSE LET hit == {k \in 1..Len(m.content) : IncompletePattern(m.content[k], task_id)}
         IN  IF hit # {}
             THEN [m EXCEPT !.content = [k \in 1..Len(m.content) |->
                                            IF k \in hit THEN MarkLine("x", m.content[k].id)
                                            ELSE m.content[k]],
                            !.marked = @ + Cardinality(hit)]
             ELSE [m EXCEPT !.not_found = @ + 1]

\* print(json.dumps(...)); sys.exit(code)
Exited(m, report) == [m EXCEPT !.pc = "done", !.reports = Append(@, report)]

\* The planner is not running.
PlannerOff ==
    /\ input = Run(FALSE, <<>>, <<>>, "file-ownership", 1)
    /\ pc = "off"
    /\ tasks = <<>>
    /\ parallel_tasks = <<>>
    /\ verify_tasks = <<>>
    /\ next_task = 1
    /\ groups = <<>>
    /\ file_ownership = [f \in {} |-> 0]
    /\ serial_tasks = <<>>
    /\ rounds = 0
    /\ result = NoResult
    /\ exit_code = -1
    /\ stdout = NoPlan
    /\ stderr = <<>>

StartMark(state, exists, doc, dry_run) ==
    /\ PlannerOff
    /\ quality = NoQuality
    /\ mark = [pc |-> "start", state |-> state, exists |-> exists, tasks_md |-> doc,
               dry_run |-> dry_run, content |-> <<>>, task_ids |-> <<>>, next |-> 1,
               marked |-> 0, already_complete |-> 0, not_found |-> 0, reports |-> <<>>]

\* Group "a" lists the first na ids, group "b" none or the first id again; the
\* document holds the first n ids, each box open or checked.
InitMark ==
    \/ \E n \in 1..MaxMarkLines : \E boxes \in [1..n -> Boxes] :
       \E na \in 0..MaxMarkLines : \E b \in {<<>>, <<MarkId(1)>>} :
       \E completed \in {<<>>, <<"a">>, <<"b", "a">>} : \E dry_run \in BOOLEAN :
           StartMark(DispatchState(TRUE,
                                   <<DispatchGroup("a", [i \in 1..na |-> MarkId(i)]),
                                     DispatchGroup("b", b)>>,
                                   completed),
                     TRUE, [i \in 1..n |-> MarkLine(boxes[i], MarkId(i))], dry_run)
    \/ \E readable \in BOOLEAN : \E exists \in BOOLEAN :
       \E gs \in {<<>>, <<DispatchGroup("a", <<MarkId(1)>>)>>} :
           /\ ~(readable /\ exists /\ gs # <<>>)
           /\ StartMark(DispatchState(readable, gs, <<"a">>),
                        exists, IF exists THEN <<MarkLine(" ", MarkId(1))>> ELSE <<>>, FALSE)

\* main() up to the loop: the reads and the early exits.
MarkStart ==
    /\ mark.pc = "start"
    /\ mark' =
          IF ~mark.state.readable THEN Exited(mark, Report(0, 0, 0, TRUE, 0))
          ELSE IF mark.state.groups = <<>> \/ mark.state.completedGroups = <<>>
                  \/ TaskIds(mark.state) = <<>>
          THEN Exited(mark, Report(0, 0, 0, FALSE, 0))
          ELSE IF ~mark.exists THEN Exited(mark, Report(0, 0, 0, TRUE, 1))
          ELSE [mark EXCEPT !.pc = "loop", !.content = mark.tasks_md,
                            !.task_ids = TaskIds(mark.state), !.next = 1,
                            !.marked = 0, !.already_complete = 0, !.not_found = 0]
    /\ UNCHANGED <<plan_vars, quality>>

\* main(): one iteration of "for task_id in task_ids".
MarkTask ==
    /\ mark.pc = "loop"
    /\ mark' = [MarkOne(mark, mark.task_ids[mark.next]) EXCEPT
                   !.next = @ + 1,
                   !.pc = IF mark.next = Len(mark.task_ids) THEN "finish" ELSE "loop"]
    /\ UNCHANGED <<plan_vars, quality>>

\* main() after the loop: the write unless --dry-run, the report, exit 0.
MarkFinish ==
    /\ mark.pc = "finish"
    /\ mark' = [Exited(mark, Report(mark.marked, mark.already_complete,
                                     mark.not_found, FALSE, 0)) EXCEPT
                   !.tasks_md = IF mark.marked > 0 /\ ~mark.dry_run
                                THEN mark.content ELSE @]
    /\ UNCHANGED <<plan_vars, quality>>

\* The tool is run again on the same files.
MarkAgain ==
    /\ mark.pc = "done"
    /\ Len(mark.reports) < MaxRuns
    /\ mark' = [mark EXCEPT !.pc = "start"]
    /\ UNCHANGED <<plan_vars, quality>>

NextMark ==
    \/ MarkStart
    \/ MarkTask
    \/ MarkFinish
    \/ MarkAgain

SpecMark == InitMark /\ [][NextMark]_vars

\* ================================================================ quality commands and verify tiers
\* ---------------------------------------------------------------- classify_verify_commands
WEAK_PATTERNS ==
    <<
       <<103, 114, 101, 112>>,                                    \* 'grep'
       <<108, 115, 32>>,                                          \* 'ls '
       <<99, 97, 116, 32>>,                                       \* 'cat '
       <<101, 99, 104, 111, 32>>,                                 \* 'echo '
       <<116, 114, 117, 101>>,                                    \* 'true'
       <<116, 101, 115, 116, 32, 45, 102>>,                       \* 'test -f'
       <<119, 99, 32>>                                            \* 'wc '
    >>
STATIC_PATTERNS ==
    <<
       <<116, 115, 99>>,                                          \* 'tsc'
       <<116, 121, 112, 101, 99, 104, 101, 99, 107>>,             \* 'typecheck'
       <<108, 105, 110, 116>>,                                    \* 'lint'
       <<101, 115, 108, 105, 110, 116>>,                          \* 'eslint'
       <<112, 114, 101, 116, 116, 105, 101, 114>>,                \* 'prettier'
       <<109, 121, 112, 121>>,                                    \* 'mypy'
       <<112, 121, 114, 105, 103, 104, 116>>,                     \* 'pyright'
       <<99, 108, 105, 112, 112, 121>>,                           \* 'clippy'
       <<114, 117, 102, 102>>                                     \* 'ruff'
    >>
RUNTIME_PATTERNS ==
    <<
       <<98, 117, 105, 108, 100>>,                                \* 'build'
       <<118, 105, 116, 101>>,                                    \* 'vite'
       <<119, 101, 98, 112, 97, 99, 107>>,                        \* 'webpack'
       <<116, 101, 115, 116>>,                                    \* 'test'
       <<118, 105, 116, 101, 115, 116>>,                          \* 'vitest'
       <<106, 101, 115, 116>>,                                    \* 'jest'
       <<112, 121, 116, 101, 115, 116>>,                          \* 'pytest'
       <<99, 97, 114, 103, 111, 32, 116, 101, 115, 116>>,         \* 'cargo test'
       <<99, 117, 114, 108>>,                                     \* 'curl'
       <<115, 101, 114, 118, 101>>,                               \* 'serve'
       <<110, 111, 100, 101, 32>>,                                \* 'node '
       <<112, 121, 116, 104, 111, 110, 51, 32>>                   \* 'python3 '
    >>

\* pat in s
Contains(pat, s) ==
    \E i \in 0..(Len(s) - Len(pat)) : \A j \in 1..Len(pat) : s[i + j] = pat[j]
\* "for pat in PATTERNS: if pat in cmd_lower: ...; break" finds one.
AnyPattern(pats, s) == \E p \in 1..Len(pats) : Contains(pats[p], s)

\* str.strip(): the white space of ASCII is dropped from both ends.
Whitespace == {9, 10, 11, 12, 13, 32}
Strip(s) ==
    LET keep == {i \in 1..Len(s) : s[i] \notin Whitespace}
    IN  IF keep = {} THEN <<>>
        ELSE SubSeq(s, CHOOSE i \in keep : \A j \in keep : i <= j,
                       CHOOSE i \in keep : \A j \in keep : i >= j)
\* str.lower(), for ASCII.
Lower(s) == [i \in 1..Len(s) |-> IF s[i] \in 65..90 THEN s[i] + 32 ELSE s[i]]

\* The tier of a command that is not empty: the static patterns are tried before
\* the runtime patterns.
TierOf_StaticFirst(verify) ==
    LET cmd_lower == Lower(verify)
    IN  IF AnyPattern(STATIC_PATTERNS, cmd_lower) THEN "static"
        ELSE IF AnyPattern(RUNTIME_PATTERNS, cmd_lower) THEN "runtime"
        ELSE "weak"
\* The tier of a command that is not empty: "weak" unless a runtime pattern
\* occurs in it, or else a static pattern; the loop over the weak patterns sets
\* the tier it already has.
TierOf(verify) ==
    LET cmd_lower == Lower(verify)
    IN  IF AnyPattern(RUNTIME_PATTERNS, cmd_lower) THEN "runtime"
        ELSE IF AnyPattern(STATIC_PATTERNS, cmd_lower) THEN "static"
        ELSE "weak"

Tiers == {"runtime", "static", "weak", "none"}
Detail(task_id, tier, command) == [taskId |-> task_id, tier |-> tier, command |-> command]

\* One iteration of "for task in tasks".
ClassifyOne(q, task) ==
    LET verify == Strip(task.verify)
        tier == IF verify = <<>> THEN "none" ELSE TierOf(verify)
    IN  [q EXCEPT !.counts[tier] = @ + 1,
                  !.details = Append(@, Detail(task.id, tier, verify))]

\* The Verify fields tried.
VerifyCommands ==
    {
       <<>>,                                                      \* ''
       <<32, 32>>,                                                \* '  '
       <<102, 111, 111>>,                                         \* 'foo'
       <<32, 71, 114, 101, 112, 32, 120, 32>>,                    \* ' Grep x '
       <<84, 83, 67>>,                                            \* 'TSC'
       <<103, 114, 101, 112, 32, 108, 105, 110, 116>>,            \* 'grep lint'
       <<106, 101, 115, 116>>,                                    \* 'jest'
       <<101, 115, 108, 105, 110, 116, 32, 38, 38, 32, 106, 101, 115, 116>>, \* 'eslint && jest'
       <<99, 97, 116, 32, 108, 97, 116, 101, 115, 116>>           \* 'cat latest'
    }

\* classify_verify_commands is called on tasks with these Verify fields.
StartClassify(verifies) ==
    /\ PlannerOff
    /\ mark = NotMarking
    /\ quality = [pc |-> "classify",
                  tasks |-> [i \in 1..Len(verifies) |-> [id |-> IdText(1, i), verify |-> verifies[i]]],
                  next |-> 1,
                  counts |-> [t \in Tiers |-> 0],
                  details |-> <<>>]

InitClassify ==
    \E n \in 0..MaxVerifyTasks : \E verifies \in [1..n -> VerifyCommands] :
        StartClassify(verifies)

\* classify_verify_commands: one iteration of its loop.
ClassifyTask ==
    /\ quality.pc = "classify"
    /\ quality.next <= Len(quality.tasks)
    /\ quality' = [ClassifyOne(quality, quality.tasks[quality.next]) EXCEPT !.next = @ + 1]
    /\ UNCHANGED <<plan_vars, mark>>

\* classify_verify_commands: return {**counts, "details": details}
ClassifyReturn ==
    /\ quality.pc = "classify"
    /\ quality.next > Len(quality.tasks)
    /\ quality' = [quality EXCEPT !.pc = "classified"]
    /\ UNCHANGED <<plan_vars, mark>>

\* ---------------------------------------------------------------- discover_quality_commands
\* The slots of the result, and None in a slot.  No source yields an empty
\* command, so the empty str stands for None here.
Slots == {"typecheck", "build", "test", "lint", "dev"}
NoCommand == <<>>
\* A dict without keys.
EmptyDict == [k \in {} |-> NoCommand]

\* What a discover function does: it returns a dict, or an exception leaves it.
Returned(partial) == [raised |-> "", partial |-> partial]
Raises(exception) == [raised |-> exception, partial |-> EmptyDict]

\* s.startswith(prefix)
StartsWith(s, prefix) ==
    Len(prefix) <= Len(s) /\ \A j \in 1..Len(prefix) : s[j] = prefix[j]

\* _discover_node: the script keys tried for each slot, in order.
mapping ==
    [typecheck |-> <<"typecheck", "check-types">>, build |-> <<"build">>,
     test |-> <<"test">>, lint |-> <<"lint">>, dev |-> <<"dev", "start">>]
\* "npx " is put before a script that is neither a pipeline nor a call of npx or npm.
NpxWrapped(val) ==
    IF /\ ~Contains(<<38, 38>>, val)                 \* '&&'
       /\ ~Contains(<<124>>, val)                    \* '|'
       /\ ~StartsWith(val, <<110, 112, 120, 32>>)   \* 'npx '
       /\ ~StartsWith(val, <<110, 112, 109, 32>>)   \* 'npm '
    THEN <<110, 112, 120, 32>> \o val
    ELSE val
\* The loop over mapping: the first key of a slot that is among the scripts.
NodeScripts(scripts) ==
    LET found(slot) == {i \in 1..Len(mapping[slot]) : mapping[slot][i] \in DOMAIN scripts}
        first(slot) == CHOOSE i \in found(slot) : \A j \in found(slot) : i <= j
    IN  [slot \in {s \in Slots : found(s) # {}} |->
            NpxWrapped(scripts[mapping[slot][first(slot)]])]
\* _discover_node: FileNotFoundError and JSONDecodeError are caught; bytes that
\* are not UTF-8 raise UnicodeDecodeError in read_text, and a JSON document that
\* is an array has no get.
_discover_node(package_json) ==
    CASE package_json.kind = "missing" -> Returned(EmptyDict)
      [] package_json.kind = "binary"  -> Raises("UnicodeDecodeError")
      [] package_json.kind = "syntax"  -> Returned(EmptyDict)
      [] package_json.kind = "array"   -> Raises("AttributeError")
      [] package_json.kind = "object"  -> Returned(NodeScripts(package_json.scripts))

\* _discover_python: nothing without tomllib; every exception is caught.
PythonTools(pyproject) ==
    LET test == "pytest" \in pyproject.tool
        mypy == Contains(<<109, 121, 112, 121>>, pyproject.deps_str)      \* 'mypy'
        pyright == Contains(<<112, 121, 114, 105, 103, 104, 116>>, pyproject.deps_str)   \* 'pyright'
        ruff == Contains(<<114, 117, 102, 102>>, pyproject.deps_str) \/ "ruff" \in pyproject.tool   \* 'ruff'
        given == (IF test THEN {"test"} ELSE {}) \cup (IF mypy \/ pyright THEN {"typecheck"} ELSE {})
                     \cup (IF ruff THEN {"lint"} ELSE {})
    IN  [slot \in given |->
            CASE slot = "test"      -> <<112, 121, 116, 101, 115, 116>>   \* 'pytest'
              [] slot = "typecheck" -> IF mypy THEN <<109, 121, 112, 121, 32, 46>>   \* 'mypy .'
                                       ELSE <<112, 121, 114, 105, 103, 104, 116>>   \* 'pyright'
              [] slot = "lint"      -> <<114, 117, 102, 102, 32, 99, 104, 101, 99, 107, 32, 46>>]   \* 'ruff check .'
_discover_python(tomllib, pyproject) ==
    IF tomllib /\ pyproject.kind = "toml" THEN Returned(PythonTools(pyproject))
    ELSE Returned(EmptyDict)

\* _discover_makefile: r'^(\w+)\s*:' on a line; the target, or the empty str.
MakeWordChar(c) == c \in 48..57 \/ c \in 65..90 \/ c \in 97..122 \/ c = 95
MakeTarget(line) ==
    LET word == {n \in 1..Len(line) : \A j \in 1..n : MakeWordChar(line[j])}
        n == IF word = {} THEN 0 ELSE CHOOSE i \in word : \A j \in word : i >= j
        space == {k \in n..Len(line) : \A j \in (n + 1)..k : line[j] \in Whitespace}
        k == CHOOSE i \in space : \A j \in space : i >= j
    IN  IF n > 0 /\ k < Len(line) /\ line[k + 1] = 58 THEN SubSeq(line, 1, n) ELSE <<>>
\* target_map
TargetSlot(target) ==
    CASE target = <<116, 101, 115, 116>> -> "test"        \* 'test'
      [] target = <<98, 117, 105, 108, 100>> -> "build"       \* 'build'
      [] target = <<108, 105, 110, 116>> -> "lint"        \* 'lint'
      [] target = <<99, 104, 101, 99, 107>> -> "typecheck"   \* 'check'
      [] target = <<116, 121, 112, 101, 99, 104, 101, 99, 107>> -> "typecheck"   \* 'typecheck'
      [] OTHER -> ""
\* result.setdefault(...) line by line: the first target of a slot stays.
MakeTargets(lines) ==
    LET of(slot) == {i \in 1..Len(lines) : TargetSlot(MakeTarget(lines[i])) = slot}
        first(slot) == CHOOSE i \in of(slot) : \A j \in of(slot) : i <= j
    IN  [slot \in {s \in Slots : of(s) # {}} |->
            <<109, 97, 107, 101, 32>> \o MakeTarget(lines[first(slot)])]   \* 'make '
\* _discover_makefile: only FileNotFoundError is caught.
_discover_makefile(makefile) ==
    CASE makefile.kind = "missing" -> Returned(EmptyDict)
      [] makefile.kind = "binary"  -> Raises("UnicodeDecodeError")
      [] makefile.kind = "text"    -> Returned(MakeTargets(makefile.lines))

\* _discover_rust: Cargo.toml is read and not parsed.
CargoCommands ==
    [slot \in {"build", "test", "lint"} |->
        CASE slot = "build" -> <<99, 97, 114, 103, 111, 32, 98, 117, 105, 108, 100>>   \* 'cargo build'
          [] slot = "test"  -> <<99, 97, 114, 103, 111, 32, 116, 101, 115, 116>>    \* 'cargo test'
          [] slot = "lint"  -> <<99, 97, 114, 103, 111, 32, 99, 108, 105, 112, 112, 121>>] \* 'cargo clippy'
_discover_rust(cargo_toml) ==
    CASE cargo_toml.kind = "missing" -> Returned(EmptyDict)
      [] cargo_toml.kind = "binary"  -> Raises("UnicodeDecodeError")
      [] cargo_toml.kind \in {"syntax", "toml"} -> Returned(CargoCommands)

\* The list of discover functions, applied to the files of the project root.
Sources == 4
discover_fn(i, root) ==
    CASE i = 1 -> _discover_node(root.package_json)
      [] i = 2 -> _discover_python(root.tomllib, root.pyproject)
      [] i = 3 -> _discover_makefile(root.makefile)
      [] i = 4 -> _discover_rust(root.cargo_toml)

\* The inner loop of discover_quality_commands: a slot that is still None takes
\* the value of partial.
Merged(slots, partial) ==
    [slot \in Slots |->
        IF slots[slot] = NoCommand /\ slot \in DOMAIN partial /\ partial[slot] # NoCommand
        THEN partial[slot] ELSE slots[slot]]

\* The files tried.
File(kind) == [kind |-> kind]
PackageJsons ==
    { File("missing"), File("binary"), File("syntax"), File("array"),
      [kind |-> "object", scripts |-> EmptyDict],
      [kind |-> "object", scripts |-> ("test" :> <<106, 101, 115, 116>>)],   \* jest
      [kind |-> "object",
       scripts |-> ("check-types" :> <<116, 115, 99>>) @@ ("typecheck" :> <<116, 115, 99, 32, 45, 112, 32, 46>>)   \* tsc; tsc -p .
                       @@ ("test" :> <<110, 112, 109, 32, 114, 117, 110, 32, 120>>)],   \* npm run x
      [kind |-> "object",
       scripts |-> ("build" :> <<97, 32, 124, 32, 98>>) @@ ("lint" :> <<110, 112, 120, 32, 101, 115, 108, 105, 110, 116>>)   \* a | b; npx eslint
                       @@ ("start" :> <<97, 32, 38, 38, 32, 98>>)] }   \* a && b
Pyprojects ==
    { File("missing"), File("syntax") } \cup
    { [kind |-> "toml", tool |-> tool, deps_str |-> deps] :
          tool \in {{}, {"pytest"}, {"ruff", "black"}},
          deps \in { <<123, 125>>,   \* {}
                     <<123, 34, 100, 101, 118, 34, 58, 32, 91, 34, 109, 121, 112, 121, 34, 44, 32, 34, 112, 121, 114, 105, 103, 104, 116, 34, 93, 125>>,   \* {"dev": ["mypy", "pyright"]}
                     <<123, 34, 100, 101, 118, 34, 58, 32, 91, 34, 112, 121, 114, 105, 103, 104, 116, 34, 44, 32, 34, 114, 117, 102, 102, 34, 93, 125>> } }   \* {"dev": ["pyright", "ruff"]}
Makefiles ==
    { File("missing"), File("binary"),
      [kind |-> "text", lines |-> << <<97, 108, 108, 58, 32, 116, 101, 115, 116>>, <<116, 101, 115, 116, 58>> >>],   \* all: test ; test:
      [kind |-> "text", lines |-> << <<9, 108, 105, 110, 116, 58>>, <<98, 117, 105, 108, 100, 32, 58>>,   \* <tab>lint: ; build :
                                     <<99, 104, 101, 99, 107, 58, 32, 108, 105, 110, 116>>, <<116, 121, 112, 101, 99, 104, 101, 99, 107, 58>> >>] }   \* check: lint ; typecheck:
CargoTomls == { File("missing"), File("binary"), File("syntax"), File("toml") }

\* discover_quality_commands is called on a project root with these files.
StartDiscover(package_json, tomllib, pyproject, makefile, cargo_toml) ==
    /\ PlannerOff
    /\ mark = NotMarking
    /\ quality = [pc |-> "discover",
                  root |-> [package_json |-> package_json, tomllib |-> tomllib,
                            pyproject |-> pyproject, makefile |-> makefile,
                            cargo_toml |-> cargo_toml],
                  source |-> 1,
                  result |-> [slot \in Slots |-> NoCommand],
                  raised |-> ""]

InitDiscover ==
    \E package_json \in PackageJsons : \E tomllib \in BOOLEAN : \E pyproject \in Pyprojects :
    \E makefile \in Makefiles : \E cargo_toml \in CargoTomls :
        StartDiscover(package_json, tomllib, pyproject, makefile, cargo_toml)

\* discover_quality_commands: one iteration of "for discover_fn in [...]"; an
\* exception of the discover function leaves discover_quality_commands too.
DiscoverSource ==
    /\ quality.pc = "discover"
    /\ quality.source <= Sources
    /\ LET got == discover_fn(quality.source, quality.root)
       IN  quality' = IF got.raised # ""
                       THEN [quality EXCEPT !.pc = "raised", !.raised = got.raised]
                       ELSE [quality EXCEPT !.result = Merged(@, got.partial),
                                            !.source = @ + 1]
    /\ UNCHANGED <<plan_vars, mark>>

\* discover_quality_commands: return result
DiscoverReturn ==
    /\ quality.pc = "discover"
    /\ quality.source > Sources
    /\ quality' = [quality EXCEPT !.pc = "discovered"]
    /\ UNCHANGED <<plan_vars, mark>>

InitQuality == InitClassify \/ InitDiscover

NextQuality ==
    \/ ClassifyTask
    \/ ClassifyReturn
    \/ DiscoverSource
    \/ DiscoverReturn

SpecQuality == InitQuality /\ [][NextQuality]_vars

\* ================================================================ properties
AutomaticRun == input.exists /\ Len(input.doc) > 0 /\ Chosen(input) = "file-ownership"
PredefinedRun == input.exists /\ Len(input.doc) > 0 /\ Chosen(input) = "predefined"

OwnedDisjoint(gs) ==
    \A g, h \in 1..Len(gs) : g # h => gs[g].ownedFiles \cap gs[h].ownedFiles = {}

\* C1: under the automatic file-ownership strategy any two distinct groups
\* have disjoint ownedFiles after every placement step and after every move
\* of the rebalancer, so also in the final plan.
C1_AutomaticOwnedFilesDisjoint == AutomaticRun => OwnedDisjoint(groups)

\* C2: under the predefined strategy no file is in the ownedFiles of two
\* different groups of the plan partition_tasks returns, also when two
\* declared groups list the same path.
C2_PredefinedOwnedFilesDisjoint ==
    (PredefinedRun /\ result # NoResult) =>
        \A a, b \in 1..Len(result.groups) :
            a # b => result.groups[a].ownedFiles \cap result.groups[b].ownedFiles = {}

\* C3: under the automatic strategy, in the final plan every task placed in a
\* group has all its files in that group's ownedFiles, and none of them in
\* another group's.
C3_TaskFilesOwnedByOwnGroup ==
    (AutomaticRun /\ pc \in {"format", "exit", "done"}) =>
        \A g \in 1..Len(groups) : \A i \in Range(groups[g].tasks) :
            /\ tasks[i].files \subseteq groups[g].ownedFiles
            /\ \A h \in 1..Len(groups) :
                  h # g => tasks[i].files \cap groups[h].ownedFiles = {}

\* The document holds one phase and its ids ascend numerically.
SinglePhaseAscending(doc) ==
    /\ \A i, j \in 1..Len(doc) : PhaseOf(doc[i].id) = PhaseOf(doc[j].id)
    /\ \A i, j \in 1..Len(doc) : i < j => NumLess(doc[i].id, doc[j].id)

\* C4: in a single-phase document in ascending numeric id order, a VERIFY task
\* with N other tasks before it by numeric id leaves build_dependency_graph with
\* exactly N dependencies, one for each of them and none twice.
C4_VerifyDependsOnAllBefore ==
    (pc = "partition" /\ SinglePhaseAscending(input.doc)) =>
        \A v \in 1..Len(tasks) :
            "VERIFY" \in tasks[v].markers =>
                LET before == {o \in 1..Len(tasks) : NumLess(tasks[o].id, tasks[v].id)}
                IN  /\ Len(tasks[v].dependencies) = Cardinality(before)
                    /\ Range(tasks[v].dependencies) = {tasks[o].id : o \in before}

\* ---- VERIFY tasks and groups (C5)
VerifyTask(i) == "VERIFY" \in tasks[i].markers
InPlanGroup(a, id) == id \in Range(result.groups[a].tasks)
Occurrences(list, x) == Cardinality({k \in 1..Len(list) : list[k] = x})

\* The "### Group" headers with a "Files owned" list and a task line, and the
\* first max_teammates of them, read off the document.
ValidHeaders ==
    {h \in 1..Len(input.declared) :
        /\ input.declared[h].files # {}
        /\ \E i \in 1..Len(input.doc) : input.doc[i].grp = h}
UsedHeaders ==
    {h \in ValidHeaders :
        Cardinality({h2 \in ValidHeaders : h2 < h}) < input.max_teammates}
UnderUsedHeader(i) == Cardinality(ValidHeaders) >= 2 /\ input.doc[i].grp \in UsedHeaders

InSomeGroup(gs, i) == \E g \in 1..Len(gs) : i \in Range(gs[g].tasks)
OwnersOf(gs, fs) == {g \in 1..Len(gs) : gs[g].ownedFiles \cap fs # {}}

\* C6: under the automatic strategy a task whose files are owned by two or
\* more groups when it is processed is appended to the Serial list and put in
\* no group; no task on the Serial list is in a group afterwards, and the
\* rebalancer leaves the list as it is.
C6_ConflictingTaskDeferred ==
    [][ /\ (pc = "place" /\ Cardinality(OwnersOf(groups, tasks[parallel_tasks[next_task]].files)) >= 2)
            => /\ serial_tasks' = Append(serial_tasks, parallel_tasks[next_task])
               /\ groups' = groups
        /\ pc = "rebalance" => serial_tasks' = serial_tasks
        /\ \A i \in Range(serial_tasks) : i \in Range(serial_tasks')
        /\ \A i \in Range(serial_tasks') : ~InSomeGroup(groups', i)
      ]_vars

C6_Witness ==
    /\ AutomaticRun
    /\ pc = "done"
    /\ serial_tasks # <<>>
    /\ \E i \in Range(serial_tasks) : Cardinality(OwnersOf(groups, tasks[i].files)) >= 2

\* ---- declared groups that claim the same file (C7)
DeclaredFiles(g) ==
    UNION {input.declared[h].files :
             h \in {h2 \in 1..Len(input.declared) :
                      input.declared[h2].name = groups[g].predefinedName}}
Claimants(f) == {g \in 1..Len(groups) : f \in DeclaredFiles(g)}
Referencing(g, f) == Cardinality({i \in Range(groups[g].tasks) : f \in tasks[i].files})
Warned(f) == \E k \in 1..Len(stderr) : stderr[k].text = "WARNING" /\ stderr[k].file = f

\* C7: under the predefined strategy a file two declared groups list is owned
\* by one group only, the one with more member tasks referencing it; a warning
\* names the file; and no warning is printed when no file is listed twice.
C7_DeclaredConflictResolved ==
    (PredefinedRun /\ pc = "done") =>
        \A f \in Files :
            IF Cardinality(Claimants(f)) >= 2
            THEN /\ Cardinality({g \in Claimants(f) : f \in groups[g].ownedFiles}) = 1
                 /\ \A g, h \in Claimants(f) :
                       (f \in groups[g].ownedFiles /\ h # g)
                           => Referencing(g, f) >= Referencing(h, f)
                 /\ Warned(f)
            ELSE ~Warned(f)

\* ---- exit codes (C9, C10)
IncompleteLines == {i \in 1..Len(input.doc) : input.doc[i].box # "x"}

ExpectedSignal ==
    IF ~input.exists \/ Len(input.doc) = 0 THEN 1
    ELSE IF Cardinality(IncompleteLines) = 0 THEN 2
    ELSE IF Cardinality(IncompleteLines) = 1 THEN 3
    ELSE IF \A g \in 1..Len(groups) : groups[g].tasks = <<>> THEN 4
    ELSE 0

WorktreeRun == input.exists /\ Len(input.doc) > 0 /\ Chosen(input) = "worktree"
\* The unfinished lines without the VERIFY marker, read off the document.
ParallelLines ==
    {i \in 1..Len(input.doc) : input.doc[i].box # "x" /\ "VERIFY" \notin input.doc[i].markers}
FewestTasks(gs) == {g \in 1..Len(gs) : \A h \in 1..Len(gs) : Len(gs[g].tasks) <= Len(gs[h].tasks)}

\* C11: with max_teammates K >= 1 the number of groups never exceeds K, during
\* partitioning and in the plan: the automatic strategy opens no group beyond
\* the cap (a task with unowned files that arrives when K groups exist joins a
\* group with the fewest tasks), worktree makes min(K, n) groups for its n
\* tasks, and every group of the predefined strategy is one of the first K
\* declared groups.
C11_AtMostMaxTeammatesGroups ==
    [][ /\ Len(groups') <= input.max_teammates
        /\ result' # NoResult => Len(result'.groups) <= input.max_teammates
        /\ (pc = "place" /\ Len(groups) = input.max_teammates
               /\ tasks[parallel_tasks[next_task]].files # {}
               /\ OwnersOf(groups, tasks[parallel_tasks[next_task]].files) = {})
            => /\ Len(groups') = Len(groups)
               /\ \E g \in FewestTasks(groups) :
                     /\ groups'[g].tasks = Append(groups[g].tasks, parallel_tasks[next_task])
                     /\ \A h \in 1..Len(groups) : h # g => groups'[h] = groups[h]
        /\ (pc = "partition" /\ WorktreeRun /\ IncompleteLines # {})
            => Len(groups') = Min2(input.max_teammates, Cardinality(ParallelLines))
        /\ (pc = "partition" /\ PredefinedRun)
            => \A g \in 1..Len(groups') :
                  groups'[g].predefinedName \in {input.declared[h].name : h \in UsedHeaders}
      ]_vars

\* An automatic run that ends with max_teammates groups, one of which holds
\* two tasks with files and no file in common: the later one came over the cap.
C11_Witness ==
    /\ AutomaticRun
    /\ pc = "done"
    /\ Len(groups) = input.max_teammates
    /\ \E g \in 1..Len(groups) : \E i, j \in Range(groups[g].tasks) :
          /\ tasks[i].files # {}
          /\ tasks[j].files # {}
          /\ tasks[i].files \cap tasks[j].files = {}

\* ---- the worktree strategy (C12)
\* The sort key of the partitioners, (phase, id), compared as Python compares
\* a pair of an int and a str.
KeyBefore(a, b) ==
    \/ tasks[a].phase < tasks[b].phase
    \/ tasks[a].phase = tasks[b].phase /\ StrLess(tasks[a].id, tasks[b].id)
\* The 0-based position of task i among the tasks to place, in that order.
Rank(i) == Cardinality({j \in ParallelLines : KeyBefore(j, i)})
Places(gs, i) == {<<g, x>> \in (1..Len(gs)) \X (1..Len(tasks)) : x <= Len(gs[g].tasks) /\ gs[g].tasks[x] = i}

Raised == \E k \in 1..Len(stderr) : stderr[k].text = "ZeroDivisionError"

\* C13: under the worktree strategy, when no incomplete task without the
\* VERIFY marker is there to place, partitioning raises no error for any
\* max_teammates: with every task complete it returns no plan, with only
\* VERIFY tasks left it returns a plan with zero groups.
C13_WorktreeNothingToPlace ==
    (WorktreeRun /\ ParallelLines = {} /\ pc \in {"format", "exit", "done"}) =>
        /\ ~Raised
        /\ groups = <<>>
        /\ serial_tasks = <<>>
        /\ pc \in {"exit", "done"} =>
              IF IncompleteLines = {} THEN result = NoResult
              ELSE result # NoResult /\ result.groups = <<>>

\* Only VERIFY tasks are left, and max_teammates is below 1.
C13_Witness ==
    /\ WorktreeRun
    /\ pc = "done"
    /\ ParallelLines = {}
    /\ Cardinality(IncompleteLines) >= 2
    /\ input.max_teammates < 1
    /\ result # NoResult
    /\ result.groups = <<>>

\* ---- the VERIFY barrier (C14)
SamePhase(a, b) == a # b /\ tasks[a].phase = tasks[b].phase
DependsOn(a, b) == tasks[b].id \in Range(tasks[a].dependencies)

\* C14: after build_dependency_graph a VERIFY task depends on every other task
\* of its phase whose id is numerically before its own, every task of its
\* phase whose id is numerically after its own depends on it, and no task of
\* its phase before it by id depends on it.
C14_VerifyTwoSidedBarrier ==
    pc = "partition" =>
        \A v, o \in 1..Len(tasks) :
            (VerifyTask(v) /\ SamePhase(v, o)) =>
                /\ NumLess(tasks[o].id, tasks[v].id) => DependsOn(v, o) /\ ~DependsOn(o, v)
                /\ NumLess(tasks[v].id, tasks[o].id) => DependsOn(o, v)

\* ---- the gate between phases (C15)
PhaseBeforeOf(t) == {o \in 1..Len(tasks) : tasks[o].phase + 1 = tasks[t].phase}
VerifiesBefore(t) == {o \in PhaseBeforeOf(t) : VerifyTask(o)}
LastOf(S) == CHOOSE x \in S : \A y \in S : y <= x

\* C15 as stated: after build_dependency_graph every task of phase N+1 has the
\* id of every VERIFY task of phase N in its dependencies, once; and when
\* phase N has no VERIFY task, no task of phase N+1 depends on a phase-N task.
C15_EveryVerifyGatesNextPhase ==
    pc = "partition" =>
        \A t \in 1..Len(tasks) :
            IF VerifiesBefore(t) = {}
            THEN \A o \in PhaseBeforeOf(t) : ~DependsOn(t, o)
            ELSE \A v \in VerifiesBefore(t) :
                    Occurrences(tasks[t].dependencies, tasks[v].id) = 1

\* C15 amended: every task of phase N+1 has, of the ids of phase N, exactly
\* that of the VERIFY task that comes last in the document among those of
\* phase N, and has it once; when phase N has no VERIFY task it has none.
C15_LastVerifyGatesNextPhase ==
    pc = "partition" =>
        \A t \in 1..Len(tasks) : \A o \in PhaseBeforeOf(t) :
            Occurrences(tasks[t].dependencies, tasks[o].id)
                = (IF VerifiesBefore(t) # {} /\ o = LastOf(VerifiesBefore(t)) THEN 1 ELSE 0)

\* Two VERIFY tasks in a phase and a task in the next phase.
C15_Witness ==
    /\ pc = "partition"
    /\ \E t \in 1..Len(tasks) :
          /\ Cardinality(VerifiesBefore(t)) >= 2
          /\ DependsOn(t, LastOf(VerifiesBefore(t)))

\* ---- the file-overlap rule (C16)
ShareFile(a, b) == tasks[a].files \cap tasks[b].files # {}
\* The edges the file-overlap rule alone gives the parsed document.
OverlapEdge(a, b) ==
    tasks[b].id \in Range(FileOverlapRule(parse_tasks(input.doc))[a].dependencies)

\* C16: of two tasks of the same phase that share a file, the one later in
\* the document depends on the earlier one and the file-overlap rule gives no
\* edge the other way; two tasks of different phases that share a file get no
\* edge from the rule.
C16_FileOverlapEdges ==
    pc = "partition" =>
        \A i, j \in 1..Len(tasks) :
            (i < j /\ ShareFile(i, j)) =>
                IF tasks[i].phase = tasks[j].phase
                THEN OverlapEdge(j, i) /\ DependsOn(j, i) /\ ~OverlapEdge(i, j)
                ELSE ~OverlapEdge(j, i) /\ ~OverlapEdge(i, j)

\* A file shared inside a phase and across two phases.
C16_Witness ==
    /\ pc = "partition"
    /\ \E i, j, k \in 1..Len(tasks) :
          /\ i < j /\ j < k
          /\ ShareFile(i, j) /\ ShareFile(j, k)
          /\ tasks[i].phase = tasks[j].phase
          /\ tasks[j].phase # tasks[k].phase
          /\ DependsOn(j, i)

\* ---- the order in which tasks are placed (C17)
\* C17: the automatic and the worktree partitioner process the tasks in
\* numeric (phase, sequence) order, 1.9 before 1.10: the list they walk
\* through ascends numerically by id.
C17_NumericProcessingOrder ==
    ((AutomaticRun \/ WorktreeRun) /\ pc \notin {"read", "graph", "partition"}) =>
        \A a, b \in 1..Len(parallel_tasks) :
            a < b => NumLess(tasks[parallel_tasks[a]].id, tasks[parallel_tasks[b]].id)

\* ---- tasks no declared group claims (C18)
\* C18: under the predefined strategy an incomplete task without the VERIFY
\* marker is on the plan's Serial list, once, exactly when its id is listed by
\* none of the declared groups that are used, and no member of a used declared
\* group is on the Serial list.
C18_UnclaimedTasksSerial ==
    (PredefinedRun /\ result # NoResult) =>
        \A i \in 1..Len(tasks) :
            /\ i \in ParallelLines =>
                  Occurrences(result.serialTasks, tasks[i].id)
                      = (IF UnderUsedHeader(i) THEN 0 ELSE 1)
            /\ UnderUsedHeader(i) => tasks[i].id \notin Range(result.serialTasks)

\* A task under a declared group past the first max_teammates, and a task
\* under no header, are Serial while a group holds another task.
C18_Witness ==
    /\ PredefinedRun
    /\ result # NoResult
    /\ Len(result.groups) >= 1
    /\ \E i, j \in ParallelLines :
          /\ input.doc[i].grp = 0
          /\ input.doc[j].grp # 0
          /\ ~UnderUsedHeader(j)
          /\ {tasks[i].id, tasks[j].id} \subseteq Range(result.serialTasks)

\* ---- dependencies across declared groups (C19)
\* The graph as build_dependency_graph left it, before partitioning.
Inferred == build_dependency_graph(parse_tasks(input.doc))
\* The ids of the task lines under the same header as line i.
DeclaredWith(i) == {input.doc[j].id : j \in {k \in 1..Len(input.doc) : input.doc[k].grp = input.doc[i].grp}}

\* C19: under the predefined strategy, after partitioning, the dependencies
\* of every task placed in a group are those of its inferred dependencies
\* that are ids declared in its own group, no more and no fewer, and every
\* group's set of dependencies on other groups is empty.
C19_DependenciesStayInGroup ==
    (PredefinedRun /\ pc \in {"format", "exit", "done"}) =>
        /\ \A g \in 1..Len(groups) :
              /\ groups[g].dependencies = {}
              /\ \A i \in Range(groups[g].tasks) :
                    Range(tasks[i].dependencies)
                        = Range(Inferred[i].dependencies) \cap DeclaredWith(i)
        /\ result # NoResult =>
              \A a \in 1..Len(result.groups) : result.groups[a].dependencies = {}

\* A group holds a task that lost an edge to another group's task and a task
\* that kept an edge inside the group.
C19_Witness ==
    /\ PredefinedRun
    /\ pc = "done"
    /\ Len(groups) >= 2
    /\ \E g \in 1..Len(groups) : \E i, j \in Range(groups[g].tasks) :
          /\ Range(tasks[i].dependencies) # Range(Inferred[i].dependencies)
          /\ tasks[j].dependencies # <<>>

\* ---- marking twice (C20)
\* A line whose box is checked, as parse_tasks reads it.
Checked(line) == line.box \in {"x", "X"}
\* The lines of the document in memory that carry the id.
LinesOf(task_id) == {k \in 1..Len(mark.content) : mark.content[k].id = task_id}

\* C20: a task of a completed group that is checked already is counted under
\* alreadyComplete and not under marked, and its line stays as it is; no
\* checked box is ever unchecked; and a second run on the document the first
\* one wrote reports marked = 0 and leaves the document unchanged.
C20_MarkingIdempotent ==
    [][ /\ (mark.pc = "loop"
               /\ \E k \in LinesOf(mark.task_ids[mark.next]) : Checked(mark.content[k]))
            => /\ mark'.already_complete = mark.already_complete + 1
               /\ mark'.marked = mark.marked
               /\ mark'.content = mark.content
        /\ Len(mark'.tasks_md) = Len(mark.tasks_md)
        /\ \A k \in 1..Len(mark.tasks_md) :
              Checked(mark.tasks_md[k]) => mark'.tasks_md[k] = mark.tasks_md[k]
        /\ (Len(mark.reports) >= 1 /\ ~mark.dry_run)
            => /\ mark'.tasks_md = mark.tasks_md
               /\ \A r \in 2..Len(mark'.reports) : mark'.reports[r].marked = 0
      ]_vars

\* ---- the ceiling of the rebalancer (C21)
\* The loop of _rebalance_groups has a reason to stop before its ceiling: a
\* single group, the gap closed, or no task of the largest group may move.
RebalanceSettled ==
    \/ Len(groups) < 2
    \/ ~Unbalanced(groups)
    \/ Movable(tasks, groups) = {}

\* C21: _rebalance_groups always terminates: it makes 10 moves at most, and
\* it stops, without another move, as soon as the largest group has at most
\* twice max(smallest group's count, 1) tasks or no task of the largest group
\* may move.
C21_RebalanceTerminates ==
    /\ [](rounds <= RebalanceRounds)
    /\ [][ pc = "rebalance" =>
              IF RebalanceSettled \/ rounds = RebalanceRounds
              THEN pc' = "format" /\ groups' = groups /\ rounds' = rounds
              ELSE pc' = "rebalance" /\ rounds' = rounds + 1 ]_vars
    /\ (pc = "rebalance") ~> (pc = "format")

\* The ceiling stopped the loop: ten moves made, and another was there to make.
C21_Witness ==
    /\ pc = "done"
    /\ rounds = RebalanceRounds
    /\ ~RebalanceSettled

\* ---- the speedup estimate (C22)
\* The tasks in the groups of the plan, and in its largest group.
PlanGrouped ==
    LET F[a \in 0..Len(result.groups)] ==
            IF a = 0 THEN 0 ELSE F[a - 1] + Len(result.groups[a].tasks)
    IN  F[Len(result.groups)]
PlanLargest ==
    CHOOSE n \in 0..Len(tasks) :
        /\ \A a \in 1..Len(result.groups) : Len(result.groups[a].tasks) <= n
        /\ \E a \in 1..Len(result.groups) : Len(result.groups[a].tasks) = n
\* Two used declared groups with disjoint files and two unfinished tasks each.
EvenSplit ==
    /\ PredefinedRun
    /\ input.max_teammates >= 2
    /\ Len(input.doc) = 4
    /\ IncompleteLines = 1..4
    /\ \A h \in 1..2 : Cardinality({i \in 1..4 : input.doc[i].grp = h}) = 2
    /\ input.declared[1].files \cap input.declared[2].files = {}

\* C22: the speedup estimate, in tenths, is the tenth nearest to the number
\* of tasks in groups divided by the task count of the largest group; with a
\* group in the plan it lies between 1.0 and the number of groups; and four
\* unfinished tasks split two and two over two declared groups with disjoint
\* files give two groups, no serial task and an estimate of 2.0.
C22_SpeedupEstimate ==
    result # NoResult =>
        /\ Len(result.groups) >= 1 =>
              LET off == 10 * PlanGrouped - result.estimatedSpeedup * PlanLargest
              IN  /\ 2 * off <= PlanLargest
                  /\ 2 * off >= -PlanLargest
                  /\ result.estimatedSpeedup >= 10
                  /\ result.estimatedSpeedup <= 10 * Len(result.groups)
        /\ EvenSplit =>
              /\ Len(result.groups) = 2
              /\ result.serialTasks = <<>>
              /\ result.estimatedSpeedup = 20

C22_Witness ==
    /\ pc = "done"
    /\ result # NoResult
    /\ EvenSplit
    /\ stdout # NoPlan
    /\ stdout.estimatedSpeedup = 20

\* ---- the tiers of the verify commands (C23)
Classifying == quality.pc \in {"classify", "classified"}
\* What is left of the Verify field of task i once the white space around it is gone.
CommandOf(i) == Strip(quality.tasks[i].verify)
HasPattern(pats, i) == \E p \in 1..Len(pats) : Contains(pats[p], Lower(CommandOf(i)))
CountOf(tier) == Cardinality({i \in 1..Len(quality.details) : quality.details[i].tier = tier})
\* C23: classify_verify_commands gives each task one tier: "none" for an empty
\* command; "runtime" for a command with a runtime pattern, whatever static or
\* weak patterns it has too; else "static" for a command with a static
\* pattern; "weak" for every other command; and the four counts are the
\* numbers of tasks of each tier, so that they sum to the number of tasks
\* classified.  Patterns are looked for in the lower-cased command.
C23_OneTierByPrecedence ==
    Classifying =>
        /\ Len(quality.details) = quality.next - 1
        /\ \A i \in 1..Len(quality.details) :
              /\ quality.details[i].taskId = quality.tasks[i].id
              /\ quality.details[i].tier \in Tiers
              /\ quality.details[i].tier =
                    IF CommandOf(i) = <<>> THEN "none"
                    ELSE IF HasPattern(RUNTIME_PATTERNS, i) THEN "runtime"
                    ELSE IF HasPattern(STATIC_PATTERNS, i) THEN "static"
                    ELSE "weak"
        /\ \A tier \in Tiers : quality.counts[tier] = CountOf(tier)
        /\ quality.counts["runtime"] + quality.counts["static"]
              + quality.counts["weak"] + quality.counts["none"] = Len(quality.details)
        /\ quality.pc = "classified" => Len(quality.details) = Len(quality.tasks)
\* A finished classification of a task whose command has a runtime pattern and a
\* static pattern, and of a task without a command.
C23_Witness ==
    /\ quality.pc = "classified"
    /\ \E i, j \in 1..Len(quality.details) :
          /\ HasPattern(RUNTIME_PATTERNS, i) /\ HasPattern(STATIC_PATTERNS, i)
          /\ quality.details[i].tier = "runtime"
          /\ quality.details[j].tier = "none"

\* ---- the sources of the quality commands (C24)
Discovering == quality.pc \in {"discover", "discovered", "raised"}
\* The configuration file of source i is there and is what its format asks for.
WellFormed(i) ==
    CASE i = 1 -> quality.root.package_json.kind = "object"
      [] i = 2 -> quality.root.pyproject.kind = "toml"
      [] i = 3 -> quality.root.makefile.kind = "text"
      [] i = 4 -> quality.root.cargo_toml.kind = "toml"
\* What source i provides: nothing unless its file is well formed.
Provides(i) == IF WellFormed(i) THEN discover_fn(i, quality.root).partial ELSE EmptyDict
\* The value of the first of the sources 1..n that provides the slot.
FirstProvided(slot, n) ==
    LET givers == {i \in 1..n : slot \in DOMAIN Provides(i)}
    IN  IF givers = {} THEN NoCommand
        ELSE Provides(CHOOSE i \in givers : \A j \in givers : i <= j)[slot]
\* C24: discover_quality_commands raises no error, and after each source, in
\* the order Node, Python, Makefile, Rust, every slot holds the value of the
\* first source so far that provides one, where a missing or malformed file
\* provides nothing; with no configuration every slot is null.
C24_FirstSourceWins ==
    Discovering =>
        /\ quality.pc # "raised"
        /\ \A slot \in Slots :
              quality.result[slot] = FirstProvided(slot, quality.source - 1)

\* ---- the choice of the strategy (C25)
\* The run without its declarations: no header, no task line under one.
Undeclared(in) ==
    [in EXCEPT !.declared = <<>>,
               !.doc = [i \in 1..Len(in.doc) |-> [in.doc[i] EXCEPT !.grp = 0]]]
\* The run with the valid headers only: the others are gone and the task lines
\* under them are under no header.
OnlyValid(in) ==
    LET keep == SelectSeq(Indices(Len(in.declared)),
                          LAMBDA h : /\ in.declared[h].files # {}
                                     /\ \E i \in 1..Len(in.doc) : in.doc[i].grp = h)
        place(h) == Cardinality({j \in 1..Len(keep) : keep[j] <= h})
    IN  [in EXCEPT !.declared = [j \in 1..Len(keep) |-> in.declared[keep[j]]],
                   !.doc = [i \in 1..Len(in.doc) |->
                               [in.doc[i] EXCEPT !.grp =
                                   IF \E j \in 1..Len(keep) : keep[j] = in.doc[i].grp
                                   THEN place(in.doc[i].grp) ELSE 0]]]
GraphOf(in) == build_dependency_graph(parse_tasks(in.doc))
\* The plan of the predefined strategy on a run whose headers are all valid.
PredefinedPlan(in) ==
    LET ts == GraphOf(in)
        used == UsedDeclared(DeclaredGroups(in), in.max_teammates)
        gs == PredefinedGroups(ts, used)
        stripped == PredefinedStrip(ts, used)
    IN  format_result(stripped, add_group_dependencies(stripped, gs),
                      PredefinedSerial(ts, ParallelOf(ts), gs), VerifyOf(ts),
                      Incomplete(stripped))
\* The plan of the worktree strategy.
WorktreePlan(in) ==
    LET ts == GraphOf(in)
        gs == WorktreeGroups(ts, SortByPhaseAndId(ts, ParallelOf(ts)), in.max_teammates)
    IN  format_result(ts, add_group_dependencies(ts, gs), <<>>, VerifyOf(ts), Incomplete(ts))
\* The groups, the map and the Serial list once the automatic strategy has
\* placed every task, before the rebalancer.
AutomaticPlaced(ts, k) ==
    LET sorted == SortByPhaseAndId(ts, ParallelOf(ts))
        P[n \in 0..Len(sorted)] ==
            IF n = 0 THEN [groups |-> <<>>, fo |-> [f \in {} |-> 0], serial |-> <<>>]
            ELSE PlaceOne(ts, P[n - 1], sorted[n], k)
    IN  P[Len(sorted)]
\* The plan of the automatic strategy: every task placed, then the rebalancer.
AutomaticPlan(in) ==
    LET ts == GraphOf(in)
        R[r \in 0..RebalanceRounds] ==
            IF r = 0 THEN AutomaticPlaced(ts, in.max_teammates)
            ELSE LET before == R[r - 1]
                 IN  IF CanMove(ts, before.groups, r - 1) THEN MoveOne(ts, before)
                     ELSE before
        st == R[RebalanceRounds]
    IN  format_result(ts, add_group_dependencies(ts, st.groups), st.serial, VerifyOf(ts),
                      Incomplete(ts))
TwoValid == Cardinality(ValidHeaders) >= 2
\* C25: the plan partition_tasks returns is the one the predefined strategy
\* makes of the valid declared groups when at least two declared groups have
\* task ids and owned files, whatever strategy was requested; otherwise it is
\* the plan the worktree strategy, when requested, or else the automatic
\* strategy makes of the same document without any declaration.
C25_StrategyByPriority ==
    (pc = "exit" /\ result # NoResult /\ input.max_teammates >= 1) =>
        result = IF TwoValid THEN PredefinedPlan(OnlyValid(input))
                 ELSE IF input.strategy = "worktree" THEN WorktreePlan(Undeclared(input))
                 ELSE AutomaticPlan(Undeclared(input))
\* The worktree strategy was requested and two of three declared groups are
\* valid; and it was requested with one valid declared group.
C25_Witness ==
    /\ pc = "done" /\ result # NoResult /\ input.strategy = "worktree"
    /\ Len(input.declared) = 3 /\ Cardinality(ValidHeaders) = 2
    /\ Len(result.groups) = 2
C25_WitnessOneValid ==
    /\ pc = "done" /\ result # NoResult /\ input.strategy = "worktree"
    /\ Cardinality(ValidHeaders) = 1 /\ Len(result.groups) = 2

\* ---- one move of the rebalancer (C26)
\* The first of the groups with the most tasks, the first with the fewest.
MostTasks == CHOOSE g \in 1..Len(groups) :
                 /\ \A h \in 1..Len(groups) : Len(groups[h].tasks) <= Len(groups[g].tasks)
                 /\ \A h \in 1..(g - 1) : Len(groups[h].tasks) < Len(groups[g].tasks)
LeastTasks == CHOOSE g \in 1..Len(groups) :
                  /\ \A h \in 1..Len(groups) : Len(groups[h].tasks) >= Len(groups[g].tasks)
                  /\ \A h \in 1..(g - 1) : Len(groups[h].tasks) > Len(groups[g].tasks)
Eligible(x) == tasks[groups[MostTasks].tasks[x]].files \cap groups[LeastTasks].ownedFiles = {}
\* Position x of the largest group's list goes to the end of the smallest
\* group's list, and the files of the task go with it.
MovesTask(x) ==
    LET from == MostTasks
        to == LeastTasks
        task == groups[from].tasks[x]
        task_files == tasks[task].files
    IN  /\ Eligible(x)
        /\ \A y \in (x + 1)..Len(groups[from].tasks) : ~Eligible(y)
        /\ Len(groups') = Len(groups)
        /\ groups'[from] =
              [groups[from] EXCEPT
                  !.tasks = SubSeq(@, 1, x - 1) \o SubSeq(@, x + 1, Len(@)),
                  !.ownedFiles = @ \ task_files]
        /\ groups'[to] =
              [groups[to] EXCEPT !.tasks = Append(@, task), !.ownedFiles = @ \cup task_files]
        /\ DOMAIN file_ownership' = DOMAIN file_ownership \cup task_files
        /\ \A f \in DOMAIN file_ownership' :
              file_ownership'[f] = IF f \in task_files THEN to ELSE file_ownership[f]
        /\ \A g \in 1..Len(groups) : g \notin {from, to} => groups'[g] = groups[g]
C26_WitnessThirdGroup == pc = "rebalance" /\ rounds >= 1 /\ Len(groups) >= 3

\* ---- dependencies between groups (C27)
\* The dependency ids of the task with this id.
DepsOfId(id) == UNION {Range(tasks[i].dependencies) : i \in {j \in 1..Len(tasks) : tasks[j].id = id}}
\* Some task of plan group a depends on a task of plan group b.
GroupNeeds(a, b) ==
    \E id \in Range(result.groups[a].tasks) :
        DepsOfId(id) \cap Range(result.groups[b].tasks) # {}
\* C27: in the plan, for groups A # B, the index of B is among A's dependencies
\* if and only if some task of A has a dependency id that is the id of a task
\* of B; no group lists itself; and every index listed is the index of a group
\* of the plan, which has tasks.
C27_GroupDependencies ==
    result # NoResult =>
        \A a \in 1..Len(result.groups) :
            /\ \A b \in 1..Len(result.groups) :
                  a # b => (result.groups[b].index \in result.groups[a].dependencies
                               <=> GroupNeeds(a, b))
            /\ result.groups[a].index \notin result.groups[a].dependencies
            /\ \A d \in result.groups[a].dependencies :
                  \E b \in 1..Len(result.groups) :
                      result.groups[b].index = d /\ result.groups[b].tasks # <<>>
\* A plan with a group that depends on another group and holds two tasks of
\* which one depends on the other.
C27_Witness ==
    /\ result # NoResult
    /\ \E a \in 1..Len(result.groups) :
          /\ result.groups[a].dependencies # {}
          /\ GroupNeeds(a, a)

\* ---- cycles of dependencies (C28)
\* Task i lists the id of task j among its dependencies.
DepEdge(i, j) == tasks[j].id \in Range(tasks[i].dependencies)
\* The tasks task i depends on, directly or through other tasks.
ReachedFrom(i) ==
    LET R[n \in 1..Len(tasks)] ==
            IF n = 1 THEN {j \in 1..Len(tasks) : DepEdge(i, j)}
            ELSE LET before == R[n - 1]
                 IN  before \cup {j \in 1..Len(tasks) : \E m \in before : DepEdge(m, j)}
    IN  R[Len(tasks)]
\* C28: the ids of a document are unique and ascend numerically, and no task
\* of the graph build_dependency_graph returns depends on itself, directly or
\* through a chain of dependencies, also in a phase with a task 1.10, a VERIFY
\* task and tasks that share a file.
C28_DependencyGraphAcyclic ==
    pc \notin {"off", "read", "graph"} =>
        \A i \in 1..Len(tasks) : i \notin ReachedFrom(i)

\* ---- the ownership map and the groups (C29)
Partitioning == AutomaticRun /\ pc \in {"place", "rebalance", "format"}
KnownFiles == DOMAIN file_ownership \cup UNION {groups[g].ownedFiles : g \in 1..Len(groups)}
\* C29: at every step of the automatic partitioner and of the rebalancer a file
\* is mapped to a group in file_ownership if and only if it is in that group's
\* ownedFiles, and every owned file is among the files of a task of some group.
C29_OwnershipMapAgrees ==
    Partitioning =>
        /\ \A f \in KnownFiles : \A g \in 1..Len(groups) :
              (f \in DOMAIN file_ownership /\ file_ownership[f] = g)
                  <=> f \in groups[g].ownedFiles
        /\ \A f \in DOMAIN file_ownership : file_ownership[f] \in 1..Len(groups)
        /\ \A g \in 1..Len(groups) : \A f \in groups[g].ownedFiles :
              \E h \in 1..Len(groups) : \E i \in Range(groups[h].tasks) : f \in tasks[i].files

\* ---- every task in one place (C30)
\* The strategy has built its groups and its Serial list.
Partitioned == /\ input.exists /\ input.max_teammates >= 1
               /\ pc \in {"rebalance", "format", "exit", "done"}
               /\ tasks # <<>> /\ exit_code # 1
\* The places of task i in the groups' task lists.
PlacesInGroups(i) ==
    {<<g, k>> \in (1..Len(groups)) \X (1..Len(tasks)) :
        k <= Len(groups[g].tasks) /\ groups[g].tasks[k] = i}
GroupedTasks(gs) == UNION {Range(gs[g].tasks) : g \in 1..Len(gs)}
\* Each unfinished task without the VERIFY marker is once in one group or once
\* on the Serial list, finished tasks are in neither, and the rebalancer leaves
\* the set of grouped tasks and the Serial list as the placement made them.
EachTaskOnce ==
    /\ \A i \in 1..Len(tasks) :
          /\ (~tasks[i].completed /\ ~VerifyTask(i)) =>
                Cardinality(PlacesInGroups(i)) + Occurrences(serial_tasks, i) = 1
          /\ tasks[i].completed =>
                PlacesInGroups(i) = {} /\ Occurrences(serial_tasks, i) = 0
    /\ (AutomaticRun /\ Incomplete(tasks) # <<>>) =>
          LET placed == AutomaticPlaced(tasks, input.max_teammates)
          IN  /\ serial_tasks = placed.serial
              /\ GroupedTasks(groups) = GroupedTasks(placed.groups)
\* The VERIFY tasks in the groups of the plan.
PlanGroupedVerify ==
    Cardinality({<<g, k>> \in (1..Len(result.groups)) \X (1..Len(tasks)) :
                    /\ k <= Len(result.groups[g].tasks)
                    /\ \E i \in 1..Len(tasks) :
                          tasks[i].id = result.groups[g].tasks[k] /\ VerifyTask(i)})
C30_WitnessRebalanced == Partitioned /\ AutomaticRun /\ rounds >= 1 /\ result # NoResult

====
